---- MODULE Spec2Model ----
(***************************************************************************)
(* The evaluation sweep of supabase/functions/evaluate-problems/index.ts:  *)
(* the settlement of due problems against the problems, solutions,         *)
(* profiles and transactions tables.                                       *)
(*                                                                         *)
(* Numbers are JavaScript numbers.  A finite number is an exact rational   *)
(* n/d in lowest terms (d > 0); Infinity and NaN are separate values.      *)
(* IEEE-754 rounding and the DECIMAL(20,6) rounding of the columns are not *)
(* modelled: sums are compared in exact arithmetic.                        *)
(***************************************************************************)
EXTENDS Integers, Sequences, FiniteSets, Bags, TLC

----------------------------------------------------------------------------
(* JavaScript numbers *)

Abs(i) == IF i < 0 THEN -i ELSE i

RECURSIVE Gcd(_, _)
Gcd(a, b) == IF b = 0 THEN a ELSE Gcd(b, a % b)

\* the finite number n/d (d # 0), in lowest terms with a positive denominator
Fin(n, d) ==
    LET g == Gcd(Abs(n), Abs(d))
        s == IF d < 0 THEN -1 ELSE 1
    IN  [k |-> "fin", n |-> (s * n) \div g, d |-> Abs(d) \div g]

Num(i) == [k |-> "fin", n |-> i, d |-> 1]

Infinity == [k |-> "inf", n |-> 1, d |-> 0]

NaN == [k |-> "nan", n |-> 0, d |-> 0]

Zero == Num(0)

IsFin(a) == a.k = "fin"

\* a === b on numbers: NaN equals nothing, itself included
JEq(a, b) == a.k # "nan" /\ b.k # "nan" /\ a = b

\* a > b; false when either side is NaN
JGt(a, b) ==
    CASE a.k = "nan" \/ b.k = "nan" -> FALSE
      [] a.k = "inf" -> b.k # "inf"
      [] b.k = "inf" -> FALSE
      [] OTHER -> a.n * b.d > b.n * a.d

JGe(a, b) == JGt(a, b) \/ JEq(a, b)

\* a + b
JAdd(a, b) ==
    CASE a.k = "nan" \/ b.k = "nan" -> NaN
      [] a.k = "inf" \/ b.k = "inf" -> Infinity
      [] OTHER -> Fin(a.n * b.d + b.n * a.d, a.d * b.d)

\* a - b, for a finite b
JSub(a, b) ==
    CASE a.k = "nan" \/ b.k = "nan" -> NaN
      [] a.k = "inf" -> Infinity
      [] OTHER -> Fin(a.n * b.d - b.n * a.d, a.d * b.d)

\* a * b
JMul(a, b) ==
    CASE a.k = "nan" \/ b.k = "nan" -> NaN
      [] a.k = "inf" -> IF b.n = 0 THEN NaN ELSE Infinity
      [] b.k = "inf" -> IF a.n = 0 THEN NaN ELSE Infinity
      [] OTHER -> Fin(a.n * b.n, a.d * b.d)

\* a / b, for a >= 0 wherever b is zero or infinite
JDiv(a, b) ==
    CASE a.k = "nan" \/ b.k = "nan" -> NaN
      [] b.k = "inf" -> IF a.k = "inf" THEN NaN ELSE Zero
      [] a.k = "inf" -> Infinity
      [] b.n = 0 -> IF a.n = 0 THEN NaN ELSE Infinity
      [] OTHER -> Fin(a.n * b.d, a.d * b.n)

\* Math.max(a, b)
JMax(a, b) ==
    CASE a.k = "nan" \/ b.k = "nan" -> NaN
      [] JGt(b, a) -> b
      [] OTHER -> a

\* Math.abs(a)
JAbs(a) == IF a.k = "fin" THEN [a EXCEPT !.n = Abs(a.n)] ELSE a

\* xs.reduce((sum, x) => sum + x, 0)
RECURSIVE JSum(_)
JSum(xs) == IF xs = <<>> THEN Zero ELSE JAdd(JSum(SubSeq(xs, 1, Len(xs) - 1)), xs[Len(xs)])

----------------------------------------------------------------------------
(* Bounds and value sets of the model *)

\* the clock runs from 1 to MaxNow
MaxNow == 2

\* at most MaxFaults storage or network faults are injected in one behaviour
MaxFaults == 1

Sweeps == {"s1", "s2"}

Handlers == {"numeric", "algorithmic"}

Creator == "u1"

\* the submitters of a problem, in the order their solutions were inserted
SubmitterOrder == <<"u2", "u3", "u4">>

Profiles == {"u1", "u2", "u3", "u4"}

Bounties == {10}

Stakes == {30, 70}

\* execution_time_ms values of an executor reply (0 stands for 0 or a missing field)
ReplyTimes == {0, 10}

\* cost values of a cost-function reply
ReplyCosts == {0, 1, 4}

Answers == {0, 2, 3}

IntendedAnswers == {0, 2}

\* test_inputs_range of the problems: min, max
RangeMin == 1

RangeMax == 2

----------------------------------------------------------------------------
(* Program constants *)

\* const ENERGY_COST_PER_MS = 1
ENERGY_COST_PER_MS == 1

\* parsed.execution_time_ms || 50
DefaultExecutionTimeMs == 50

\* profiles.currency DEFAULT 100.0
DefaultCurrency == 100

\* problems.time_penalty_per_ms NUMERIC NOT NULL DEFAULT 0.001
DefaultTimePenaltyPerMs == Fin(1, 1000)

----------------------------------------------------------------------------
(* Rows and values *)

\* SQL NULL / JavaScript null in a numeric place
Null == [k |-> "null", n |-> 0, d |-> 0]

\* JSON.stringify of a number on its way to a column: Infinity and NaN become null
ToJson(x) == IF x.k \in {"inf", "nan"} THEN Null ELSE x

NoSolution == <<>>

NoProfile == [currency |-> Null, reputation |-> Null, total_profit |-> Null]

NoExec == [output |-> "null", executionTimeMs |-> Zero, error |-> FALSE]

Tx(user, type, amount, problem, solution) ==
    [user_id |-> user, type |-> type, amount |-> amount,
     problem_id |-> problem, solution_id |-> solution]

VARIABLES
    now,           \* the clock the deadline is compared with
    handler,       \* which of the two serve handlers of the file is deployed
    problems,      \* table problems: id -> row
    solutions,     \* table solutions: id -> row
    profiles,      \* table profiles: id -> row
    transactions,  \* table transactions: a bag of rows (append-only)
    sw,            \* per sweep instance: its position and local variables
    instances,     \* the sweep instances the scheduler may invoke
    faults,        \* number of faults that may still be injected
    hist,          \* history of the run (not program state)
    gate,          \* the validate-code function: its deployment and the request it serves
    admin,         \* the Admin page: its problem list and the invalidation it runs
    pages,         \* the pages of the users: cached profile, form, submit in progress
    fetch          \* fetch-external-data: its clock and the answers it has given

vars == <<now, handler, problems, solutions, profiles, transactions, sw, instances,
          faults, hist, gate, admin, pages, fetch>>

----------------------------------------------------------------------------
(* The payout rule *)

\* the pool without the bounty
PoolMutant(bounty, sols) == JSum([i \in 1..Len(sols) |-> sols[i].stake])

\* index.ts 375-376 / 66-67: pool = bounty + sum of the stakes
Pool(bounty, sols) == JAdd(bounty, JSum([i \in 1..Len(sols) |-> sols[i].stake]))

\* index.ts 413: the rate is the constant of line 159; timePenaltyPerMs, read from
\* the problem at line 330, is used nowhere
EnergyCost(totalExecutionTimeMs) == JMul(totalExecutionTimeMs, Num(ENERGY_COST_PER_MS))

\* the stake less the energy cost, without the floor
EffectiveStakeMutant(stake, energyCost) == JSub(stake, energyCost)

\* index.ts 414
EffectiveStake(stake, energyCost) == JMax(Zero, JSub(stake, energyCost))

IsZeroCost(e) == JEq(e.cost, Zero)

\* index.ts 438
ZeroCostSolutions(evaluated) == SelectSeq(evaluated, IsZeroCost)

\* the score as stake times cost
ScoreMutant(e) ==
    IF JEq(e.cost, Infinity) \/ JEq(e.cost, Zero) THEN Zero
    ELSE JMul(e.effectiveStake, e.cost)

\* index.ts 457
Score(e) ==
    IF JEq(e.cost, Infinity) \/ JEq(e.cost, Zero) THEN Zero
    ELSE JDiv(e.effectiveStake, e.cost)

\* an equal share for every zero-cost solution
ZeroCostShareMutant(e, totalEffectiveStake, nZero) == JDiv(Num(1), Num(nZero))

\* index.ts 447
ZeroCostShare(e, totalEffectiveStake, nZero) ==
    IF JGt(totalEffectiveStake, Zero) THEN JDiv(e.effectiveStake, totalEffectiveStake)
    ELSE JDiv(Num(1), Num(nZero))

\* the share of the total score without the guard on a zero total
ScorePayoutMutant(score, totalScore, pool, n) == JMul(pool, JDiv(score, totalScore))

\* index.ts 464
ScorePayout(score, totalScore, pool, n) ==
    IF JGt(totalScore, Zero) THEN JMul(pool, JDiv(score, totalScore))
    ELSE JDiv(pool, Num(n))

\* index.ts 437-466: the gross payout of every evaluated solution
Payouts(evaluated, pool) ==
    LET zeroCost == ZeroCostSolutions(evaluated)
        n == Len(evaluated)
    IN  IF Len(zeroCost) > 0
        THEN LET totalEffectiveStake ==
                     JSum([i \in 1..Len(zeroCost) |-> zeroCost[i].effectiveStake])
             IN  [i \in 1..n |->
                    [id |-> evaluated[i].id, submitter_id |-> evaluated[i].submitter_id,
                     stake |-> evaluated[i].stake, error |-> Null,
                     payout |-> IF IsZeroCost(evaluated[i])
                                THEN JMul(pool, ZeroCostShare(evaluated[i],
                                                  totalEffectiveStake, Len(zeroCost)))
                                ELSE Zero]]
        ELSE LET scores == [i \in 1..n |-> Score(evaluated[i])]
                 totalScore == JSum(scores)
             IN  [i \in 1..n |->
                    [id |-> evaluated[i].id, submitter_id |-> evaluated[i].submitter_id,
                     stake |-> evaluated[i].stake, error |-> Null,
                     payout |-> ScorePayout(scores[i], totalScore, pool, n)]]

\* index.ts 72-73
RelativeError(answer, intendedAnswer) ==
    LET error == JAbs(JSub(answer, intendedAnswer))
    IN  IF ~JEq(intendedAnswer, Zero) THEN JDiv(error, JAbs(intendedAnswer)) ELSE error

\* index.ts 75-76
NumericScore(answer, intendedAnswer, stake) ==
    JMul(JDiv(Num(1), JAdd(Num(1), RelativeError(answer, intendedAnswer))), stake)

\* index.ts 84
NumericShare(score, totalScore, n) ==
    IF JGt(totalScore, Zero) THEN JDiv(score, totalScore) ELSE JDiv(Num(1), Num(n))

\* index.ts 69-86: the gross payout of every solution of a numeric-answer problem
NumericPayouts(sols, intendedAnswer, pool) ==
    LET n == Len(sols)
        scores == [i \in 1..n |-> NumericScore(sols[i].answer, intendedAnswer, sols[i].stake)]
        totalScore == JSum(scores)
    IN  [i \in 1..n |->
           [id |-> sols[i].id, submitter_id |-> sols[i].submitter_id,
            stake |-> sols[i].stake,
            error |-> RelativeError(sols[i].answer, intendedAnswer),
            payout |-> JMul(pool, NumericShare(scores[i], totalScore, n))]]

\* the bounty written over the balance instead of added to it
RefundedCurrencyMutant(currency, bounty) == bounty

\* index.ts 358 / 49: Number(creator.currency) + bounty
RefundedCurrency(currency, bounty) == JAdd(currency, bounty)

\* the gross payout taken for the net result
NetPayoutMutant(p) == p.payout

\* index.ts 470 / 86
NetPayout(p) == JSub(p.payout, p.stake)

\* index.ts 486 / 102: netPayout * 0.1
ReputationChange(netPayout) == JMul(netPayout, Fin(1, 10))

----------------------------------------------------------------------------
(* The tables as the sweep reads them *)

ProblemOrder == <<"p1", "p2">>

ProblemIds == {"p1", "p2"}

SolutionIds == ProblemIds \X Profiles

\* the selection without the status filter
DueMutant(row, t) == row.deadline < t

\* index.ts 316-317 / 24-25: .eq("status", "open").lt("deadline", now)
Due(row, t) == row.status = "open" /\ row.deadline < t

\* select("*, solutions(*)"): the solution rows of problem p, each with its id
SolutionsOf(p) ==
    LET Exists(u) == <<p, u>> \in DOMAIN solutions
        us == SelectSeq(SubmitterOrder, Exists)
    IN  [i \in 1..Len(us) |->
           [id |-> <<p, us[i]>>, submitter_id |-> us[i],
            stake |-> solutions[<<p, us[i]>>].stake,
            answer |-> solutions[<<p, us[i]>>].answer]]

\* index.ts 313-317 / 21-25: the due open problems, each with its solutions
SelectDue ==
    LET IsDue(p) == Due(problems[p], now)
        ps == SelectSeq(ProblemOrder, IsDue)
    IN  [i \in 1..Len(ps) |->
           [id |-> ps[i], creator_id |-> problems[ps[i]].creator_id,
            bounty |-> problems[ps[i]].bounty,
            intended_answer |-> problems[ps[i]].intended_answer,
            solutions |-> SolutionsOf(ps[i])]]

----------------------------------------------------------------------------
(* One sweep instance: its position in the handler and its local variables *)

IdleSweep(response) ==
    [pc |-> "idle", response |-> response,
     batch |-> <<>>, pi |-> 0, testInput |-> 0, pool |-> Zero,
     evaluated |-> <<>>, k |-> 0, execResult |-> NoExec,
     payouts |-> <<>>, j |-> 0, read |-> NoProfile, failed |-> FALSE]

\* the problem a sweep is working on, and that problem's solutions
Problem(s) == sw[s].batch[sw[s].pi]

\* the storage calls that may fail now: all succeed once the fault budget is spent
Outcomes == IF faults > 0 THEN {TRUE, FALSE} ELSE {TRUE}

Spend(ok) == faults' = IF ok THEN faults ELSE faults - 1

\* a loop body that goes to the solvers without drawing and storing an input
StartProblemMutant(r, i) ==
    IF i > Len(r.batch)
    THEN IdleSweep("evaluated")
    ELSE [IdleSweep(r.response) EXCEPT
            !.batch = r.batch, !.pi = i, !.k = 1,
            !.pc = IF Len(r.batch[i].solutions) = 0 THEN "refund_read" ELSE "exec",
            !.pool = Pool(r.batch[i].bounty, r.batch[i].solutions)]

\* index.ts 325-345 (algorithmic) / 33-86 (numeric): from the top of the loop body
\* for problem i of the batch to its first await; past the last problem, the response
StartProblem(r, i) ==
    IF i > Len(r.batch)
    THEN IdleSweep("evaluated")
    ELSE LET prob == r.batch[i]
             base == [IdleSweep(r.response) EXCEPT !.batch = r.batch, !.pi = i]
         IN  IF handler = "algorithmic"
             THEN [base EXCEPT !.pc = "store_input"]
             ELSE IF Len(prob.solutions) = 0
             THEN [base EXCEPT !.pc = "refund_read"]
             ELSE LET pool == Pool(prob.bounty, prob.solutions)
                  IN  [base EXCEPT !.pc = "pay_sol", !.pool = pool, !.j = 1,
                         !.payouts = NumericPayouts(prob.solutions,
                                                    prob.intended_answer, pool)]

\* index.ts 469 / 83: the next payout of the distribution loop, or the status flip
NextPayout(r) ==
    IF r.j + 1 > Len(r.payouts)
    THEN [r EXCEPT !.pc = "flip", !.read = NoProfile]
    ELSE [r EXCEPT !.pc = "pay_sol", !.j = r.j + 1, !.read = NoProfile]

----------------------------------------------------------------------------
(* The executor calls *)

ThrowReply == [kind |-> "throw", output |-> "null", time |-> 0, cost |-> 0, error |-> TRUE]

\* what the gateway can answer to executePython: a non-OK response, a body that
\* is not JSON, a JSON body with an output (or a null output), a JSON body with
\* an error; under a fault the call throws (no API key, network failure)
ExecReplies ==
    {[kind |-> "not_ok", output |-> "null", time |-> 0, cost |-> 0, error |-> TRUE],
     [kind |-> "unparsable", output |-> "null", time |-> 0, cost |-> 0, error |-> TRUE],
     [kind |-> "parsed", output |-> "undefined", time |-> 0, cost |-> 0, error |-> TRUE]}
    \cup [kind : {"parsed"}, output : {"value", "null"}, time : ReplyTimes,
          cost : {0}, error : {FALSE}]
    \cup (IF faults > 0 THEN {ThrowReply} ELSE {})

\* what the gateway can answer to calculateCost
CostReplies ==
    {[kind |-> "not_ok", output |-> "null", time |-> 0, cost |-> 0, error |-> TRUE],
     [kind |-> "unparsable", output |-> "null", time |-> 0, cost |-> 0, error |-> TRUE],
     [kind |-> "parsed", output |-> "undefined", time |-> 0, cost |-> 0, error |-> TRUE]}
    \cup [kind : {"parsed"}, output : {"undefined"}, time : ReplyTimes,
          cost : ReplyCosts, error : {FALSE}]
    \cup (IF faults > 0 THEN {ThrowReply} ELSE {})

\* index.ts 207-229: the ExecutionResult of a reply that did not throw
ExecResult(reply) ==
    IF reply.kind \in {"not_ok", "unparsable"}
    THEN [output |-> "null", executionTimeMs |-> Zero, error |-> TRUE]
    ELSE [output |-> reply.output,
          executionTimeMs |-> IF reply.time = 0 THEN Num(DefaultExecutionTimeMs)
                              ELSE Num(reply.time),
          error |-> reply.error]

\* index.ts 279-298: the result of calculateCost for a reply that did not throw
CostResult(reply) ==
    IF reply.kind \in {"not_ok", "unparsable"}
    THEN [cost |-> Infinity, executionTimeMs |-> Zero, error |-> TRUE]
    ELSE IF reply.error
    THEN [cost |-> Infinity, executionTimeMs |-> Num(reply.time), error |-> TRUE]
    ELSE [cost |-> Num(reply.cost),
          executionTimeMs |-> IF reply.time = 0 THEN Num(DefaultExecutionTimeMs)
                              ELSE Num(reply.time),
          error |-> FALSE]

\* index.ts 412-424: the entry pushed to evaluatedSolutions
Evaluated(sol, output, cost, totalExecutionTimeMs) ==
    [id |-> sol.id, submitter_id |-> sol.submitter_id, stake |-> sol.stake,
     output |-> output, cost |-> cost, executionTimeMs |-> totalExecutionTimeMs,
     effectiveStake |-> EffectiveStake(sol.stake, EnergyCost(totalExecutionTimeMs))]

----------------------------------------------------------------------------
(* The handler, one action per await *)

\* index.ts 313-323 / 21-31: select the due open problems; none (or no answer
\* from the storage) ends the request with "No problems to evaluate"
Invoke(s) ==
    /\ s \in instances
    /\ sw[s].pc = "idle"
    /\ \E ok \in Outcomes :
          /\ Spend(ok)
          /\ LET batch == IF ok THEN SelectDue ELSE <<>>
                 r == [IdleSweep("none") EXCEPT !.batch = batch]
             IN  sw' = [sw EXCEPT ![s] =
                          IF Len(batch) = 0 THEN IdleSweep("no_problems")
                          ELSE StartProblem(r, 1)]
    /\ UNCHANGED <<fetch, gate, admin, pages, now, handler, instances, problems, solutions, profiles, transactions, hist>>

\* index.ts 332-345, 347, 374-376: draw the test input, store it on the problem,
\* then branch on solutions.length and compute the pool
StoreTestInput(s) ==
    /\ sw[s].pc = "store_input"
    /\ \E ok \in Outcomes, v \in problems[Problem(s).id].range_min ..
                                 problems[Problem(s).id].range_max :
          /\ Spend(ok)
          /\ problems' = IF ok THEN [problems EXCEPT ![Problem(s).id].test_input = v]
                         ELSE problems
          /\ sw' = [sw EXCEPT ![s] =
                      IF Len(Problem(s).solutions) = 0
                      THEN [@ EXCEPT !.pc = "refund_read", !.testInput = v]
                      ELSE [@ EXCEPT !.pc = "exec", !.testInput = v, !.k = 1,
                              !.pool = Pool(Problem(s).bounty, Problem(s).solutions)]]
    /\ UNCHANGED <<fetch, gate, admin, pages, now, handler, instances, solutions, profiles, transactions, hist>>

\* index.ts 349-355 / 40-46: read the creator's currency; no row, no refund
ReadCreator(s) ==
    /\ sw[s].pc = "refund_read"
    /\ \E ok \in Outcomes :
          /\ Spend(ok)
          /\ sw' = [sw EXCEPT ![s] =
                      IF ok
                      THEN [@ EXCEPT !.pc = "refund_update",
                              !.read = [NoProfile EXCEPT !.currency =
                                          profiles[Problem(s).creator_id].currency]]
                      ELSE [@ EXCEPT !.pc = "flip", !.failed = TRUE]]
    /\ UNCHANGED <<fetch, gate, admin, pages, now, handler, instances, problems, solutions, profiles, transactions, hist>>

\* index.ts 356-359 / 47-50: currency = the currency read + bounty
RefundCreator(s) ==
    /\ sw[s].pc = "refund_update"
    /\ \E ok \in Outcomes :
          LET c == Problem(s).creator_id
              currency == RefundedCurrency(sw[s].read.currency, Problem(s).bounty)
              written == ok /\ JGe(currency, Zero)
          IN  /\ Spend(ok)
              /\ profiles' = IF written THEN [profiles EXCEPT ![c].currency = currency]
                             ELSE profiles
              /\ hist' = IF written
                         THEN [hist EXCEPT !.credited = @ (+) SetToBag({<<Problem(s).id, c>>})]
                         ELSE hist
              /\ sw' = [sw EXCEPT ![s] = [@ EXCEPT !.pc = "refund_tx",
                                            !.failed = @ \/ ~written]]
    /\ UNCHANGED <<fetch, gate, admin, pages, now, handler, instances, problems, solutions, transactions>>

\* index.ts 361-367 / 52-58: the bounty_return transaction
InsertBountyReturn(s) ==
    /\ sw[s].pc = "refund_tx"
    /\ \E ok \in Outcomes :
          /\ Spend(ok)
          /\ transactions' =
                IF ok
                THEN transactions (+) SetToBag({Tx(Problem(s).creator_id, "bounty_return",
                                                   Problem(s).bounty, Problem(s).id,
                                                   NoSolution)})
                ELSE transactions
          /\ sw' = [sw EXCEPT ![s] = [@ EXCEPT !.pc = "flip", !.failed = @ \/ ~ok]]
    /\ UNCHANGED <<fetch, gate, admin, pages, now, handler, instances, problems, solutions, profiles, hist>>

\* index.ts 398-410, 412-424: run the solver; a reply without a usable output
\* leaves cost = Infinity and the entry is pushed; a throw leaves the handler
\* through the catch of lines 514-521
ExecutePython(s) ==
    /\ sw[s].pc = "exec"
    /\ \E reply \in ExecReplies :
          LET sol == Problem(s).solutions[sw[s].k]
              res == ExecResult(reply)
          IN  /\ faults' = IF reply.kind = "throw" THEN faults - 1 ELSE faults
              /\ sw' = [sw EXCEPT ![s] =
                          IF reply.kind = "throw" THEN IdleSweep("error")
                          ELSE IF ~res.error /\ res.output # "null"
                          THEN [@ EXCEPT !.pc = "cost", !.execResult = res]
                          ELSE [@ EXCEPT !.pc = "sol_update", !.execResult = res,
                                  !.evaluated = Append(@, Evaluated(sol, res.output,
                                                  Infinity, res.executionTimeMs))]]
              /\ hist' = IF reply.kind = "throw"
                         THEN [hist EXCEPT !.aborted = @ \cup {sol.id}]
                         ELSE hist
    /\ UNCHANGED <<fetch, gate, admin, pages, now, handler, instances, problems, solutions, profiles, transactions>>

\* index.ts 405-410, 412-424: run the cost function on the output, add its time,
\* take its cost unless it reports an error, and push the entry
CalculateCost(s) ==
    /\ sw[s].pc = "cost"
    /\ \E reply \in CostReplies :
          LET sol == Problem(s).solutions[sw[s].k]
              res == CostResult(reply)
              total == JAdd(sw[s].execResult.executionTimeMs, res.executionTimeMs)
              cost == IF ~res.error THEN res.cost ELSE Infinity
          IN  /\ faults' = IF reply.kind = "throw" THEN faults - 1 ELSE faults
              /\ sw' = [sw EXCEPT ![s] =
                          IF reply.kind = "throw" THEN IdleSweep("error")
                          ELSE [@ EXCEPT !.pc = "sol_update",
                                  !.evaluated = Append(@, Evaluated(sol,
                                                  sw[s].execResult.output, cost, total))]]
              /\ hist' = IF reply.kind = "throw"
                         THEN [hist EXCEPT !.aborted = @ \cup {sol.id}]
                         ELSE hist
    /\ UNCHANGED <<fetch, gate, admin, pages, now, handler, instances, problems, solutions, profiles, transactions>>

\* index.ts 427-434, then 391 or 437-466: store output, cost and execution time
\* on the solution; after the last solution compute the payouts
UpdateSolutionRecord(s) ==
    /\ sw[s].pc = "sol_update"
    /\ \E ok \in Outcomes :
          LET e == sw[s].evaluated[sw[s].k]
          IN  /\ Spend(ok)
              /\ solutions' =
                    IF ok
                    THEN [solutions EXCEPT ![e.id] =
                            [@ EXCEPT !.output = e.output, !.cost = ToJson(e.cost),
                               !.execution_time_ms = sw[s].execResult.executionTimeMs]]
                    ELSE solutions
              /\ sw' = [sw EXCEPT ![s] =
                          IF sw[s].k + 1 > Len(Problem(s).solutions)
                          THEN [@ EXCEPT !.pc = "pay_sol", !.j = 1, !.execResult = NoExec,
                                  !.payouts = Payouts(sw[s].evaluated, sw[s].pool)]
                          ELSE [@ EXCEPT !.pc = "exec", !.k = @ + 1,
                                  !.execResult = NoExec]]
    /\ UNCHANGED <<fetch, gate, admin, pages, now, handler, instances, problems, profiles, transactions, hist>>


\* index.ts 473-476 / 89-92: store the net payout (and, numeric, the error)
UpdateSolutionPayout(s) ==
    /\ sw[s].pc = "pay_sol"
    /\ \E ok \in Outcomes :
          LET p == sw[s].payouts[sw[s].j]
          IN  /\ Spend(ok)
              /\ solutions' =
                    IF ok
                    THEN [solutions EXCEPT ![p.id] =
                            [@ EXCEPT !.payout = NetPayout(p),
                               !.error = IF handler = "numeric" THEN p.error ELSE @]]
                    ELSE solutions
              /\ sw' = [sw EXCEPT ![s] = [@ EXCEPT !.pc = "pay_read"]]
    /\ UNCHANGED <<fetch, gate, admin, pages, now, handler, instances, problems, profiles, transactions, hist>>

\* index.ts 479-485 / 95-101: read the submitter's profile; no row, no credit
ReadProfile(s) ==
    /\ sw[s].pc = "pay_read"
    /\ \E ok \in Outcomes :
          /\ Spend(ok)
          /\ sw' = [sw EXCEPT ![s] =
                      IF ok
                      THEN [@ EXCEPT !.pc = "pay_update",
                              !.read = profiles[sw[s].payouts[sw[s].j].submitter_id]]
                      ELSE NextPayout([@ EXCEPT !.failed = TRUE])]
    /\ UNCHANGED <<fetch, gate, admin, pages, now, handler, instances, problems, solutions, profiles, transactions, hist>>

\* index.ts 486-494 / 102-110: currency, reputation and total_profit, each the
\* value read plus its change; the row keeps currency >= 0 (positive_currency)
UpdateProfile(s) ==
    /\ sw[s].pc = "pay_update"
    /\ \E ok \in Outcomes :
          LET p == sw[s].payouts[sw[s].j]
              u == p.submitter_id
              row == [currency |-> JAdd(sw[s].read.currency, p.payout),
                      reputation |-> JAdd(sw[s].read.reputation,
                                          ReputationChange(NetPayout(p))),
                      total_profit |-> JAdd(sw[s].read.total_profit, NetPayout(p))]
              written == ok /\ JGe(row.currency, Zero)
          IN  /\ Spend(ok)
              /\ profiles' = IF written THEN [profiles EXCEPT ![u] = row] ELSE profiles
              /\ hist' = IF written
                         THEN [hist EXCEPT !.credited = @ (+) SetToBag({<<Problem(s).id, u>>})]
                         ELSE hist
              /\ sw' = [sw EXCEPT ![s] = [@ EXCEPT !.pc = "pay_tx",
                                            !.failed = @ \/ ~written]]
    /\ UNCHANGED <<fetch, gate, admin, pages, now, handler, instances, problems, solutions, transactions>>

\* index.ts 496-503 / 112-119: the payout transaction, then the next payout
InsertPayoutTx(s) ==
    /\ sw[s].pc = "pay_tx"
    /\ \E ok \in Outcomes :
          LET p == sw[s].payouts[sw[s].j]
          IN  /\ Spend(ok)
              /\ transactions' =
                    IF ok
                    THEN transactions (+) SetToBag({Tx(p.submitter_id, "payout", p.payout,
                                                       Problem(s).id, p.id)})
                    ELSE transactions
              /\ sw' = [sw EXCEPT ![s] = NextPayout([@ EXCEPT !.failed = @ \/ ~ok])]
    /\ UNCHANGED <<fetch, gate, admin, pages, now, handler, instances, problems, solutions, profiles, hist>>

\* index.ts 507 / 370 / 123 / 61: status = evaluated, then the next problem of
\* the batch or the response
MarkEvaluated(s) ==
    /\ sw[s].pc = "flip"
    /\ \E ok \in Outcomes :
          /\ Spend(ok)
          /\ problems' = IF ok THEN [problems EXCEPT ![Problem(s).id].status = "evaluated"]
                         ELSE problems
          /\ hist' = IF ok /\ sw[s].failed
                     THEN [hist EXCEPT !.commitAfterFailure = @ \cup {Problem(s).id}]
                     ELSE IF ~ok
                     THEN [hist EXCEPT !.uncommitted = @ \cup {Problem(s).id}]
                     ELSE hist
          /\ sw' = [sw EXCEPT ![s] = StartProblem(@, sw[s].pi + 1)]
    /\ UNCHANGED <<fetch, gate, admin, pages, now, handler, instances, solutions, profiles, transactions>>

\* time passes
Tick ==
    /\ now < MaxNow
    /\ now' = now + 1
    /\ UNCHANGED <<fetch, gate, admin, pages, handler, instances, problems, solutions, profiles, transactions,
                   sw, faults, hist>>

Step(s) ==
    \/ Invoke(s)
    \/ StoreTestInput(s)
    \/ ReadCreator(s)
    \/ RefundCreator(s)
    \/ InsertBountyReturn(s)
    \/ ExecutePython(s)
    \/ CalculateCost(s)
    \/ UpdateSolutionRecord(s)
    \/ UpdateSolutionPayout(s)
    \/ ReadProfile(s)
    \/ UpdateProfile(s)
    \/ InsertPayoutTx(s)
    \/ MarkEvaluated(s)

Next == Tick \/ \E s \in Sweeps : Step(s)

----------------------------------------------------------------------------
(* The code safety gate: supabase/functions/validate-code/index.ts and the   *)
(* stricter unnamed/part_007.  A code is the set of the fragments it holds   *)
(* (the empty set is the empty string); a pattern matches a code that holds  *)
(* its fragment, and an issue is named by the fragment that raised it.       *)

GateVersions == {"validate-code/index.ts", "part_007"}

CodeTypes == {"cost_function", "test_input_generator", "algorithm"}

Fragments == {"import os", "import sys", "while True:", "user_id", "return 0"}

Codes == SUBSET Fragments

\* DANGEROUS_PATTERNS and COST_FUNCTION_PATTERNS: the severity of the pattern a
\* fragment matches, "none" when no pattern matches it
PatternSeverity(version, codeType, f) ==
    CASE f = "import os" -> "dangerous"
      [] f = "import sys" ->
            IF version = "part_007" THEN "dangerous" ELSE "warning"
      [] f = "while True:" -> "warning"
      [] f = "user_id" ->
            IF version = "part_007" /\ codeType = "cost_function" THEN "dangerous"
            ELSE "none"
      [] OTHER -> "none"

\* staticAnalysis
staticAnalysis(version, code, codeType) ==
    LET found(sev) == {f \in code : PatternSeverity(version, codeType, f) = sev}
        hasDangerous == found("dangerous") # {}
        hasWarning == found("warning") # {}
    IN  [issues |-> found("dangerous") \cup found("warning"),
         severity |-> IF hasDangerous THEN "dangerous"
                      ELSE IF hasWarning THEN "warning" ELSE "safe"]

\* combineSeverity; a severity the reviewer left out counts as neither
combineSeverity(a, b) ==
    IF a = "dangerous" \/ b = "dangerous" THEN "dangerous"
    ELSE IF a = "warning" \/ b = "warning" THEN "warning"
    ELSE "safe"

ValidationResult(status, isValid, issues, severity) ==
    [status |-> status, isValid |-> isValid, issues |-> issues, severity |-> severity]

NoResult == ValidationResult(0, FALSE, {}, "none")

\* the handler never rejecting on the static result alone
RejectsStaticallyMutant(staticResult) == FALSE

\* index.ts 101 / part_007 247: a dangerous static finding rejects at once
RejectsStatically(staticResult) == staticResult.severity = "dangerous"

\* index.ts 174-184, 210-220 / part_007 348-361, 391-404: the answer when the
\* reviewer gave no usable reply
Fallback(version, staticResult, note) ==
    IF version = "part_007"
    THEN ValidationResult(200, staticResult.issues = {},
                          IF staticResult.issues # {}
                          THEN staticResult.issues \cup {note} ELSE {},
                          IF staticResult.issues # {} THEN "warning" ELSE "safe")
    ELSE ValidationResult(200, TRUE, staticResult.issues, staticResult.severity)

\* what the fetch of the reviewer can bring: a rejected fetch, a non-OK response,
\* a body that is no JSON, a content that is no JSON (or holds no issues list),
\* and a parsed ValidationResult
ReviewerReplies ==
    [kind : {"throw", "not_ok", "not_json", "unparsable"}, issues : {{}},
     severity : {"undefined"}]
    \cup [kind : {"parsed"}, issues : {{}, {"reviewer"}},
          severity : {"safe", "warning", "dangerous", "undefined"}]

NoGate ==
    [version |-> "validate-code/index.ts", key |-> FALSE, pc |-> "idle", code |-> {},
     codeType |-> "algorithm", staticResult |-> [issues |-> {}, severity |-> "safe"],
     reviewer |-> "none", result |-> NoResult]

\* index.ts 88-125 / part_007 230-272: the request is read, the code is scanned,
\* a dangerous finding or a missing API key answers at once, otherwise the
\* reviewer is called
ServeValidate ==
    /\ gate.pc = "request"
    /\ LET staticResult == staticAnalysis(gate.version, gate.code, gate.codeType)
           Answer(result) == [gate EXCEPT !.pc = "response", !.result = result]
       IN  gate' =
              IF gate.code = {}
              THEN Answer(ValidationResult(400, FALSE, {"Code and codeType are required"},
                                           "dangerous"))
              ELSE IF RejectsStatically(staticResult)
              THEN [Answer(ValidationResult(200, FALSE, staticResult.issues, "dangerous"))
                       EXCEPT !.staticResult = staticResult]
              ELSE IF ~gate.key
              THEN [Answer(ValidationResult(200, TRUE, staticResult.issues,
                                            staticResult.severity))
                       EXCEPT !.staticResult = staticResult, !.reviewer = "no_key"]
              ELSE [gate EXCEPT !.pc = "review", !.staticResult = staticResult]
    /\ UNCHANGED <<fetch, now, handler, instances, problems, solutions, profiles, transactions,
                   sw, faults, hist, admin, pages>>

\* index.ts 174-228 / part_007 348-412: the answer built from the reviewer's reply
Reviewed(version, staticResult, reply) ==
    CASE reply.kind \in {"throw", "not_json"} ->
            ValidationResult(500, FALSE, {"message"}, "dangerous")
      [] reply.kind = "not_ok" ->
            Fallback(version, staticResult,
                     "AI analysis unavailable - manual review recommended")
      [] reply.kind = "unparsable" ->
            Fallback(version, staticResult,
                     "AI analysis parse error - manual review recommended")
      [] OTHER ->
            LET combinedSeverity == combineSeverity(staticResult.severity, reply.severity)
            IN  ValidationResult(200, combinedSeverity # "dangerous",
                                 staticResult.issues \cup reply.issues, combinedSeverity)

\* index.ts 158-220 / part_007 332-404: the reviewer's reply arrives
ReviewCode ==
    /\ gate.pc = "review"
    /\ \E reply \in ReviewerReplies :
          gate' = [gate EXCEPT !.pc = "response", !.reviewer = reply.kind,
                               !.result = Reviewed(gate.version, gate.staticResult, reply)]
    /\ UNCHANGED <<fetch, now, handler, instances, problems, solutions, profiles, transactions,
                   sw, faults, hist, admin, pages>>

NextValidate == ServeValidate \/ ReviewCode

----------------------------------------------------------------------------
(* The Admin page of pages/PastProblems.tsx: the problem list and            *)
(* invalidateProblem, one action per await                                   *)

NoFullProblem ==
    [id |-> "none", creator_id |-> "none", creator_currency |-> Null, bounty |-> Zero,
     solutions |-> <<>>]

\* the page before its first fetchData
NoAdmin ==
    [pc |-> "idle", problems |-> [p \in ProblemIds |-> "none"],
     fullProblem |-> NoFullProblem, i |-> 0, solver |-> Null]

\* PastProblems.tsx 167-187: load the problems into the list; also called after
\* an invalidation (256)
fetchData ==
    /\ admin.pc \in {"idle", "fetch"}
    /\ \E ok \in Outcomes :
          /\ Spend(ok)
          /\ admin' = [admin EXCEPT !.pc = "idle",
                          !.problems = IF ok THEN [p \in ProblemIds |-> problems[p].status]
                                       ELSE @]
    /\ UNCHANGED <<fetch, gate, pages, now, handler, instances, problems, solutions, profiles,
                   transactions, sw, hist>>

\* the balance overwritten with the amount returned
ReturnedCurrencyMutant(currency, amount) == amount

\* PastProblems.tsx 215 / 236: Number(currency) + Number(amount)
ReturnedCurrency(currency, amount) == JAdd(currency, amount)

\* PastProblems.tsx 232, 251-256: the next solution of the loop, or the status update
NextReturn(r) ==
    IF r.i + 1 > Len(r.fullProblem.solutions)
    THEN [r EXCEPT !.pc = "mark", !.solver = Null]
    ELSE [r EXCEPT !.pc = "read_solver", !.i = r.i + 1, !.solver = Null]

\* PastProblems.tsx 406-414, 203-211: the Invalidate button of a listed problem
\* whose status is not invalidated; the problem is read with its creator and
\* its solutions, and nothing is done when that read brings no row
invalidateProblem(p) ==
    /\ admin.pc = "idle"
    /\ admin.problems[p] \notin {"none", "invalidated"}
    /\ \E ok \in Outcomes :
          /\ Spend(ok)
          /\ admin' =
                IF ok
                THEN [admin EXCEPT !.pc = "return_bounty", !.i = 0,
                        !.fullProblem =
                            [id |-> p, creator_id |-> problems[p].creator_id,
                             creator_currency |-> profiles[problems[p].creator_id].currency,
                             bounty |-> problems[p].bounty,
                             solutions |-> SolutionsOf(p)]]
                ELSE admin
    /\ UNCHANGED <<fetch, gate, pages, now, handler, instances, problems, solutions, profiles,
                   transactions, sw, hist>>

\* PastProblems.tsx 213-217: currency = the creator's currency read + bounty
ReturnBounty ==
    /\ admin.pc = "return_bounty"
    /\ \E ok \in Outcomes :
          LET c == admin.fullProblem.creator_id
              currency == ReturnedCurrency(admin.fullProblem.creator_currency,
                                           admin.fullProblem.bounty)
              written == ok /\ JGe(currency, Zero)
          IN  /\ Spend(ok)
              /\ profiles' = IF written THEN [profiles EXCEPT ![c].currency = currency]
                             ELSE profiles
              /\ hist' = IF written
                         THEN [hist EXCEPT !.credited =
                                 @ (+) SetToBag({<<admin.fullProblem.id, c>>})]
                         ELSE hist
              /\ admin' = [admin EXCEPT !.pc = "bounty_tx"]
    /\ UNCHANGED <<fetch, gate, pages, now, handler, instances, problems, solutions, transactions,
                   sw>>

\* PastProblems.tsx 219-225: the bounty_return transaction
LogBountyReturn ==
    /\ admin.pc = "bounty_tx"
    /\ \E ok \in Outcomes :
          /\ Spend(ok)
          /\ transactions' =
                IF ok
                THEN transactions (+) SetToBag({Tx(admin.fullProblem.creator_id,
                        "bounty_return", admin.fullProblem.bounty, admin.fullProblem.id,
                        NoSolution)})
                ELSE transactions
          /\ admin' = NextReturn(admin)
    /\ UNCHANGED <<fetch, gate, pages, now, handler, instances, problems, solutions, profiles,
                   sw, hist>>

\* PastProblems.tsx 228-233: read the solver's currency; no row, no return
ReadSolver ==
    /\ admin.pc = "read_solver"
    /\ \E ok \in Outcomes :
          /\ Spend(ok)
          /\ admin' =
                IF ok
                THEN [admin EXCEPT !.pc = "return_stake",
                        !.solver = profiles[admin.fullProblem.solutions[admin.i]
                                               .submitter_id].currency]
                ELSE NextReturn(admin)
    /\ UNCHANGED <<fetch, gate, pages, now, handler, instances, problems, solutions, profiles,
                   transactions, sw, hist>>

\* PastProblems.tsx 235-238: currency = the solver's currency read + stake
ReturnStake ==
    /\ admin.pc = "return_stake"
    /\ \E ok \in Outcomes :
          LET sol == admin.fullProblem.solutions[admin.i]
              currency == ReturnedCurrency(admin.solver, sol.stake)
              written == ok /\ JGe(currency, Zero)
          IN  /\ Spend(ok)
              /\ profiles' = IF written
                             THEN [profiles EXCEPT ![sol.submitter_id].currency = currency]
                             ELSE profiles
              /\ hist' = IF written
                         THEN [hist EXCEPT !.credited =
                                 @ (+) SetToBag({<<admin.fullProblem.id, sol.submitter_id>>})]
                         ELSE hist
              /\ admin' = [admin EXCEPT !.pc = "stake_tx"]
    /\ UNCHANGED <<fetch, gate, pages, now, handler, instances, problems, solutions, transactions,
                   sw>>

\* PastProblems.tsx 240-247: the stake_return transaction, then the next solution
LogStakeReturn ==
    /\ admin.pc = "stake_tx"
    /\ \E ok \in Outcomes :
          LET sol == admin.fullProblem.solutions[admin.i]
          IN  /\ Spend(ok)
              /\ transactions' =
                    IF ok
                    THEN transactions (+) SetToBag({Tx(sol.submitter_id, "stake_return",
                            sol.stake, admin.fullProblem.id, sol.id)})
                    ELSE transactions
              /\ admin' = NextReturn(admin)
    /\ UNCHANGED <<fetch, gate, pages, now, handler, instances, problems, solutions, profiles,
                   sw, hist>>

\* PastProblems.tsx 253-256: status = invalidated, then fetchData
MarkInvalidated ==
    /\ admin.pc = "mark"
    /\ \E ok \in Outcomes :
          /\ Spend(ok)
          /\ problems' = IF ok
                         THEN [problems EXCEPT ![admin.fullProblem.id].status = "invalidated"]
                         ELSE problems
          /\ admin' = [admin EXCEPT !.pc = "fetch", !.fullProblem = NoFullProblem,
                                    !.i = 0]
    /\ UNCHANGED <<fetch, gate, pages, now, handler, instances, solutions, profiles,
                   transactions, sw, hist>>

AdminStep ==
    \/ fetchData
    \/ \E p \in ProblemIds : invalidateProblem(p)
    \/ ReturnBounty
    \/ LogBountyReturn
    \/ ReadSolver
    \/ ReturnStake
    \/ LogStakeReturn
    \/ MarkInvalidated

\* the Admin page alone
NextInvalidate == AdminStep

\* the Admin page beside the sweep
NextAdmin == Next \/ AdminStep

----------------------------------------------------------------------------
(* supabase/functions/fetch-external-data/index.ts: the simulated data       *)
(* sources.  A symbol is the sequence of the char codes of its string; the   *)
(* clock is what new Date() reads: year, month (0-based), date and hours.    *)

\* "AAPL", "aapl", "TSLA", "ZZ"
Symbols == {<<65, 65, 80, 76>>, <<97, 97, 112, 108>>, <<84, 83, 76, 65>>, <<90, 90>>}

\* the calendar dates of the model, in their order, and the hours of a day
Days == <<[year |-> 2026, month |-> 10, date |-> 3],
          [year |-> 2026, month |-> 10, date |-> 4],
          [year |-> 2026, month |-> 11, date |-> 3]>>

Hours == {0, 23}

\* at most MaxAnswers answers are kept in one behaviour
MaxAnswers == 3

\* symbol.toUpperCase()
toUpperCase(symbol) ==
    [i \in DOMAIN symbol |-> IF symbol[i] >= 97 /\ symbol[i] <= 122 THEN symbol[i] - 32
                             ELSE symbol[i]]

\* basePrices[symbol.toUpperCase()] || 100.0, for the symbols of the model
BasePrice(symbol) ==
    CASE toUpperCase(symbol) = <<65, 65, 80, 76>> -> 185
      [] toUpperCase(symbol) = <<84, 83, 76, 65>> -> 250
      [] OTHER -> 100

RECURSIVE SymbolHash(_)
\* symbol.split("").reduce((acc, char) => acc + char.charCodeAt(0), 0)
SymbolHash(symbol) ==
    IF symbol = <<>> THEN 0
    ELSE SymbolHash(SubSeq(symbol, 1, Len(symbol) - 1)) + symbol[Len(symbol)]

\* a day hash that moves with the hour
DayHashMutant(t) == t.year * 10000 + (t.month + 1) * 100 + t.date + t.hours

\* now.getFullYear() * 10000 + (now.getMonth() + 1) * 100 + now.getDate()
DayHash(t) == t.year * 10000 + (t.month + 1) * 100 + t.date

\* x.toFixed(digits) read back by Number(), for a finite x >= 0 (round half up;
\* the binary representation of x is not modelled)
ToFixed(x, scale) == Fin((2 * x.n * scale + x.d) \div (2 * x.d), scale)

\* fetchStock: the price; (dayHash * symbolHash) % 1000 is computed from
\* dayHash % 1000, which gives the same remainder
fetchStock(symbol, t) ==
    LET basePrice == BasePrice(symbol)
        remainder == ((DayHash(t) % 1000) * SymbolHash(symbol)) % 1000
        variation == JMul(JSub(Fin(remainder, 1000), Fin(1, 2)), Fin(1, 10))
    IN  ToFixed(JMul(Num(basePrice), JAdd(Num(1), variation)), 100)

\* what new Date() reads now
Clock == [year |-> Days[fetch.day].year, month |-> Days[fetch.day].month,
          date |-> Days[fetch.day].date, hours |-> fetch.hours]

NoFetch == [day |-> 1, hours |-> 0, answers |-> {}]

\* time passes: a later hour of the day, or the next day
PassTime ==
    /\ \/ \E h \in Hours : h > fetch.hours /\ fetch' = [fetch EXCEPT !.hours = h]
       \/ /\ fetch.day < Len(Days)
          /\ \E h \in Hours : fetch' = [fetch EXCEPT !.day = @ + 1, !.hours = h]
    /\ UNCHANGED <<gate, admin, pages, now, handler, instances, problems, solutions,
                   profiles, transactions, sw, faults, hist>>

\* index.ts 157-168, 206-210: a request of type "stock" is answered
ServeStock ==
    /\ Cardinality(fetch.answers) < MaxAnswers
    /\ \E symbol \in Symbols :
          fetch' = [fetch EXCEPT !.answers =
                      @ \cup {[symbol |-> symbol, day |-> fetch.day, hours |-> fetch.hours,
                               price |-> fetchStock(symbol, Clock)]}]
    /\ UNCHANGED <<gate, admin, pages, now, handler, instances, problems, solutions,
                   profiles, transactions, sw, faults, hist>>

NextFetch == PassTime \/ ServeStock

\* the pages of the users
Tabs == {"a", "b"}

NoMarks == [cost |-> "none", generator |-> "none"]

\* a page nobody has opened; currency is the profile.currency the page holds
ClosedPage ==
    [user |-> "none", pc |-> "closed", currency |-> Null, op |-> "none", amount |-> 0,
     problem |-> "none", code |-> {}, generator |-> {}, template |-> "none",
     marks |-> NoMarks]

NoPages == [t \in Tabs |-> ClosedPage]

----------------------------------------------------------------------------
(* Initial states: the tables after problems were created and solutions      *)
(* submitted (bounties and stakes locked, lock transactions logged)          *)

NoHist ==
    [credited |-> EmptyBag, commitAfterFailure |-> {}, aborted |-> {}, accepted |-> {},
     deposits |-> 0, submits |-> 0, uncommitted |-> {}]

ProblemRow(bounty, deadline, intended, range, rate) ==
    [creator_id |-> Creator, bounty |-> Num(bounty), deadline |-> deadline,
     status |-> "open", test_input |-> 0, intended_answer |-> Num(intended),
     range_min |-> range[1], range_max |-> range[2], time_penalty_per_ms |-> rate]

SolutionRow(stake, answer) ==
    [stake |-> Num(stake), answer |-> Num(answer), output |-> "null", cost |-> Null,
     execution_time_ms |-> Null, error |-> Null, payout |-> Null]

SubmitterIndex(u) == CHOOSE i \in 1..Len(SubmitterOrder) : SubmitterOrder[i] = u

\* the stake user u locked on problem p (0 without a solution)
StakeOf(subs, p, u) ==
    IF \E i \in 1..Len(subs[p]) : SubmitterOrder[i] = u
    THEN subs[p][SubmitterIndex(u)].stake ELSE 0

\* what user u has locked in bounties and stakes
Locked(bounty, subs, u) ==
    StakeOf(subs, "p1", u) + StakeOf(subs, "p2", u)
    + (IF u = Creator THEN bounty["p1"] + bounty["p2"] ELSE 0)

\* subs[p]: the [stake, answer] of the solutions of problem p, in SubmitterOrder;
\* rate[p]: the time_penalty_per_ms of problem p
RatedTables(bounty, deadline, intended, range, rate, subs) ==
    /\ problems = [p \in ProblemIds |->
                     ProblemRow(bounty[p], deadline[p], intended, range, rate[p])]
    /\ solutions = [id \in {<<p, SubmitterOrder[i]>> : p \in ProblemIds, i \in 1..3}
                          \cap {id \in SolutionIds :
                                   \E i \in 1..Len(subs[id[1]]) : SubmitterOrder[i] = id[2]}
                    |-> SolutionRow(subs[id[1]][SubmitterIndex(id[2])].stake,
                                    subs[id[1]][SubmitterIndex(id[2])].answer)]
    /\ profiles = [u \in Profiles |->
                     [currency |-> Num(DefaultCurrency - Locked(bounty, subs, u)),
                      reputation |-> Zero, total_profit |-> Zero]]
    /\ transactions =
          SetToBag({Tx(Creator, "bounty_lock", Num(-bounty[p]), p, NoSolution) :
                       p \in ProblemIds}
                   \cup {Tx(id[2], "stake_lock",
                            Num(-subs[id[1]][SubmitterIndex(id[2])].stake), id[1], id) :
                            id \in {x \in SolutionIds :
                                      \E i \in 1..Len(subs[x[1]]) :
                                         SubmitterOrder[i] = x[2]}})

\* the tables of problems created with the default time penalty
Tables(bounty, deadline, intended, range, subs) ==
    RatedTables(bounty, deadline, intended, range,
                [p \in ProblemIds |-> DefaultTimePenaltyPerMs], subs)

\* the solution lists of a problem: up to max solutions
Submissions(stakes, answers, max) ==
    UNION {[1..n -> [stake : stakes, answer : answers]] : n \in 0..max}

\* one sweep instance, invoked one time after another, and no faults; problem
\* p1 falls due and p2 does not
Init ==
    /\ now = 1
    /\ handler \in Handlers
    /\ faults = 0
    /\ hist = NoHist
    /\ instances = {"s1"}
    /\ sw = [s \in Sweeps |-> IdleSweep("none")]
    /\ gate = NoGate
    /\ admin = NoAdmin
    /\ pages = NoPages
    /\ fetch = NoFetch
    /\ \E b \in Bounties,
          ia \in (IF handler = "numeric" THEN IntendedAnswers ELSE {0}),
          subs \in Submissions(Stakes, IF handler = "numeric" THEN Answers ELSE {0}, 3) :
          Tables([p \in ProblemIds |-> b],
                 [p \in ProblemIds |-> IF p = "p1" THEN 1 ELSE MaxNow + 1], ia,
                 <<RangeMin, RangeMin>>,
                 [p \in ProblemIds |-> IF p = "p1" THEN subs ELSE <<>>])

Spec == Init /\ [][Next]_vars

\* two sweep instances that may overlap, and no faults; problem p1 falls due
\* with at most one solution
InitRace ==
    /\ now = 1
    /\ handler \in Handlers
    /\ faults = 0
    /\ hist = NoHist
    /\ instances = Sweeps
    /\ sw = [s \in Sweeps |-> IdleSweep("none")]
    /\ gate = NoGate
    /\ admin = NoAdmin
    /\ pages = NoPages
    /\ fetch = NoFetch
    /\ \E subs \in Submissions({30}, IF handler = "numeric" THEN {2} ELSE {0}, 1) :
          Tables([p \in ProblemIds |-> 10],
                 [p \in ProblemIds |-> IF p = "p1" THEN 1 ELSE MaxNow + 1], 2,
                 <<RangeMin, RangeMax>>,
                 [p \in ProblemIds |-> IF p = "p1" THEN subs ELSE <<>>])

SpecRace == InitRace /\ [][Next]_vars

\* one sweep instance and up to MaxFaults faults (a storage call that returns
\* an error, an executor call that throws); p1 and p2 fall due together, p1
\* with up to two solutions and p2 with none
InitFault ==
    /\ now = 1
    /\ handler \in Handlers
    /\ faults = MaxFaults
    /\ hist = NoHist
    /\ instances = {"s1"}
    /\ sw = [s \in Sweeps |-> IdleSweep("none")]
    /\ gate = NoGate
    /\ admin = NoAdmin
    /\ pages = NoPages
    /\ fetch = NoFetch
    /\ \E subs \in Submissions({30}, IF handler = "numeric" THEN {2} ELSE {0}, 2) :
          Tables([p \in ProblemIds |-> 10], [p \in ProblemIds |-> 1], 2,
                 <<RangeMin, RangeMin>>,
                 [p \in ProblemIds |-> IF p = "p1" THEN subs ELSE <<>>])

SpecFault == InitFault /\ [][Next]_vars

\* the algorithmic handler retrying after a fault: one sweep instance, up to
\* MaxFaults faults, p1 due with at most one solution, and a test input range
\* with more than one value
InitRetry ==
    /\ now = 1
    /\ handler = "algorithmic"
    /\ faults = MaxFaults
    /\ hist = NoHist
    /\ instances = {"s1"}
    /\ sw = [s \in Sweeps |-> IdleSweep("none")]
    /\ gate = NoGate
    /\ admin = NoAdmin
    /\ pages = NoPages
    /\ fetch = NoFetch
    /\ \E subs \in Submissions({30}, {0}, 1) :
          Tables([p \in ProblemIds |-> 10],
                 [p \in ProblemIds |-> IF p = "p1" THEN 1 ELSE MaxNow + 1], 0,
                 <<RangeMin, RangeMax>>,
                 [p \in ProblemIds |-> IF p = "p1" THEN subs ELSE <<>>])

SpecRetry == InitRetry /\ [][Next]_vars

\* time_penalty_per_ms values of the problems
PenaltyRates == {0, 2}

\* the algorithmic handler on problems with their own time penalties: one sweep
\* instance, no faults, p1 and p2 due together, p1 with one solution and p2 with
\* one or none
InitRates ==
    /\ now = 1
    /\ handler = "algorithmic"
    /\ faults = 0
    /\ hist = NoHist
    /\ instances = {"s1"}
    /\ sw = [s \in Sweeps |-> IdleSweep("none")]
    /\ gate = NoGate
    /\ admin = NoAdmin
    /\ pages = NoPages
    /\ fetch = NoFetch
    /\ \E rate \in [ProblemIds -> PenaltyRates], subs \in Submissions({30}, {0}, 1) :
          RatedTables([p \in ProblemIds |-> 10], [p \in ProblemIds |-> 1], 0,
                      <<RangeMin, RangeMin>>, [p \in ProblemIds |-> Num(rate[p])],
                      [p \in ProblemIds |-> IF p = "p1"
                                             THEN <<[stake |-> 30, answer |-> 0]>>
                                             ELSE subs])

SpecRates == InitRates /\ [][Next]_vars

\* the validate-code function serving one request: either version deployed,
\* with or without the reviewer's API key, any code and code type
InitValidate ==
    /\ now = 1
    /\ handler = "algorithmic"
    /\ faults = 0
    /\ hist = NoHist
    /\ instances = {}
    /\ sw = [s \in Sweeps |-> IdleSweep("none")]
    /\ admin = NoAdmin
    /\ pages = NoPages
    /\ fetch = NoFetch
    /\ gate \in {[NoGate EXCEPT !.version = v, !.key = key, !.pc = "request",
                                !.code = code, !.codeType = codeType] :
                    v \in GateVersions, key \in BOOLEAN, code \in Codes,
                    codeType \in CodeTypes}
    /\ Tables([p \in ProblemIds |-> 10], [p \in ProblemIds |-> 1], 0,
              <<RangeMin, RangeMin>>, [p \in ProblemIds |-> <<>>])

SpecValidate == InitValidate /\ [][NextValidate]_vars

\* the Admin page alone, no faults: p1 open with up to two solutions, p2 open
\* with up to one
InitInvalidate ==
    /\ now = 1
    /\ handler \in Handlers
    /\ faults = 0
    /\ hist = NoHist
    /\ instances = {}
    /\ sw = [s \in Sweeps |-> IdleSweep("none")]
    /\ gate = NoGate
    /\ admin = NoAdmin
    /\ pages = NoPages
    /\ fetch = NoFetch
    /\ \E subs1 \in Submissions(Stakes, {0}, 2), subs2 \in Submissions({30}, {0}, 1) :
          Tables([p \in ProblemIds |-> 10], [p \in ProblemIds |-> MaxNow + 1], 0,
                 <<RangeMin, RangeMin>>,
                 [p \in ProblemIds |-> IF p = "p1" THEN subs1 ELSE subs2])

SpecInvalidate == InitInvalidate /\ [][NextInvalidate]_vars

\* the Admin page beside one sweep instance, no faults: p1 falls due with at
\* most one solution
InitAdmin ==
    /\ now = 1
    /\ handler \in Handlers
    /\ faults = 0
    /\ hist = NoHist
    /\ instances = {"s1"}
    /\ sw = [s \in Sweeps |-> IdleSweep("none")]
    /\ gate = NoGate
    /\ admin = NoAdmin
    /\ pages = NoPages
    /\ fetch = NoFetch
    /\ \E subs \in Submissions({30}, IF handler = "numeric" THEN {2} ELSE {0}, 1) :
          Tables([p \in ProblemIds |-> 10],
                 [p \in ProblemIds |-> IF p = "p1" THEN 1 ELSE MaxNow + 1], 2,
                 <<RangeMin, RangeMin>>,
                 [p \in ProblemIds |-> IF p = "p1" THEN subs ELSE <<>>])

SpecAdmin == InitAdmin /\ [][NextAdmin]_vars

----------------------------------------------------------------------------
(* The pages of the users: pages/CreateProblem.tsx (handleSubmit),           *)
(* pages/ProblemDetail.tsx (handleSubmitSolution) and the deposit recorders  *)
(* of supabase/functions/fetch-external-data/index.ts.  Every await of a     *)
(* handler is one step; a page reads profile.currency from the copy it       *)
(* loaded, never from the table.                                             *)

\* the users who have a page open
PageUsers == {"u1", "u2"}

\* what a user types into a code field
FormCodes == {{"return 0"}, {"import os"}}

\* selectedTemplate: the generator field is shown for 'custom' only
Templates == {"custom", "optimization"}

\* the ids the database gives to the problems created by the pages
FreshProblemIds == {"p3"}

\* at most MaxDeposits deposits are recorded in one behaviour
MaxDeposits == 1

\* at most MaxSubmits forms are submitted in one behaviour
MaxSubmits == 2

IdlePage(page) ==
    [ClosedPage EXCEPT !.user = page.user, !.pc = "idle", !.currency = page.currency]

\* validate-code answering one request: ServeValidate and ReviewCode in one step
Served(version, key, code, codeType, reply) ==
    LET staticResult == staticAnalysis(version, code, codeType)
    IN  IF code = {}
        THEN ValidationResult(400, FALSE, {"Code and codeType are required"}, "dangerous")
        ELSE IF RejectsStatically(staticResult)
        THEN ValidationResult(200, FALSE, staticResult.issues, "dangerous")
        ELSE IF ~key
        THEN ValidationResult(200, TRUE, staticResult.issues, staticResult.severity)
        ELSE Reviewed(version, staticResult, reply)

\* supabase.functions.invoke('validate-code'): a response outside 2xx comes back
\* as error, its body is not handed to the caller
invoke(code, codeType, reply) ==
    LET result == Served(gate.version, gate.key, code, codeType, reply)
    IN  [error |-> result.status # 200, data |-> result]

\* refreshProfile (CreateProblem.tsx 286, ProblemDetail.tsx 632), also the load
\* of the profile when a page is opened or visited again
refreshProfile(t) ==
    /\ pages[t].pc \in {"idle", "refresh"}
    /\ pages' = [pages EXCEPT ![t] = [IdlePage(@) EXCEPT
                                        !.currency = profiles[pages[t].user].currency]]
    /\ UNCHANGED <<fetch, gate, admin, now, handler, instances, problems, solutions, profiles,
                   transactions, sw, faults, hist>>

\* CreateProblem.tsx 127-174: the form is parsed and checked against the copy of
\* the profile; a bounty above profile.currency returns
handleSubmit(t) ==
    /\ pages[t].pc = "idle"
    /\ hist.submits < MaxSubmits
    /\ FreshProblemIds \ DOMAIN problems # {}
    /\ \A o \in Tabs : pages[o].op # "create"
    /\ \E bounty \in Bounties, code \in FormCodes, generator \in FormCodes,
          template \in Templates :
          pages' = [pages EXCEPT ![t] =
                      IF JGt(Num(bounty), @.currency) THEN @
                      ELSE [@ EXCEPT !.pc = "validate_cost", !.op = "create",
                                     !.amount = bounty, !.code = code,
                                     !.generator = generator, !.template = template]]
    /\ hist' = [hist EXCEPT !.submits = @ + 1]
    /\ UNCHANGED <<fetch, gate, admin, now, handler, instances, problems, solutions, profiles,
                   transactions, sw, faults>>

\* CreateProblem.tsx 176-197, 217-219: the cost function goes to validate-code;
\* an error is thrown into the catch that warns and proceeds, and skips the
\* generator's validation with it
ValidateCost(t) ==
    /\ pages[t].pc = "validate_cost"
    /\ \E reply \in ReviewerReplies :
          LET costValidation == invoke(pages[t].code, "cost_function", reply)
              custom == pages[t].template = "custom" /\ pages[t].generator # {}
          IN  pages' = [pages EXCEPT ![t] =
                 IF costValidation.error
                 THEN [@ EXCEPT !.pc = "lock",
                                !.marks = [cost |-> IF costValidation.data.isValid
                                                    THEN "warned" ELSE "warned_invalid",
                                           generator |-> IF custom THEN "warned"
                                                         ELSE "none"]]
                 ELSE IF ~costValidation.data.isValid THEN IdlePage(@)
                 ELSE [@ EXCEPT !.pc = IF custom THEN "validate_generator" ELSE "lock",
                                !.marks = [cost |-> "valid", generator |-> "none"]]]
    /\ UNCHANGED <<fetch, gate, admin, now, handler, instances, problems, solutions, profiles,
                   transactions, sw, faults, hist>>

\* CreateProblem.tsx 199-216: the custom generator goes to validate-code; an
\* error of the call is passed over without a warning
ValidateGenerator(t) ==
    /\ pages[t].pc = "validate_generator"
    /\ \E reply \in ReviewerReplies :
          LET genValidation == invoke(pages[t].generator, "test_input_generator", reply)
          IN  pages' = [pages EXCEPT ![t] =
                 IF genValidation.error
                 THEN [@ EXCEPT !.pc = "lock",
                                !.marks.generator = IF genValidation.data.isValid
                                                    THEN "passed_over"
                                                    ELSE "passed_over_invalid"]
                 ELSE IF ~genValidation.data.isValid THEN IdlePage(@)
                 ELSE [@ EXCEPT !.pc = "lock", !.marks.generator = "valid"]]
    /\ UNCHANGED <<fetch, gate, admin, now, handler, instances, problems, solutions, profiles,
                   transactions, sw, faults, hist>>

\* ProblemDetail.tsx 572-590: the stake is checked against the copy of the
\* profile; validate-code is not called
handleSubmitSolution(t) ==
    /\ pages[t].pc = "idle"
    /\ hist.submits < MaxSubmits
    /\ \E p \in ProblemIds, stake \in Stakes, algorithm \in FormCodes :
          /\ problems[p].status = "open"
          /\ pages' = [pages EXCEPT ![t] =
                         IF JGt(Num(stake), @.currency) THEN @
                         ELSE [@ EXCEPT !.pc = "lock", !.op = "solve", !.amount = stake,
                                        !.problem = p, !.code = algorithm]]
    /\ hist' = [hist EXCEPT !.submits = @ + 1]
    /\ UNCHANGED <<fetch, gate, admin, now, handler, instances, problems, solutions, profiles,
                   transactions, sw, faults>>

\* CreateProblem.tsx 243 / ProblemDetail.tsx 597: profile.currency - amount
LockedCurrency(page, stored) == JSub(page.currency, Num(page.amount))

\* CreateProblem.tsx 241-246 / ProblemDetail.tsx 594-600: lock the bounty or the
\* stake; the table refuses a negative currency (positive_currency) and an
\* error is thrown into the catch
LockFunds(t) ==
    /\ pages[t].pc = "lock"
    /\ \E ok \in Outcomes :
          LET u == pages[t].user
              currency == LockedCurrency(pages[t], profiles[u].currency)
              written == ok /\ JGe(currency, Zero)
          IN  /\ Spend(ok)
              /\ profiles' = IF written THEN [profiles EXCEPT ![u].currency = currency]
                             ELSE profiles
              /\ pages' = [pages EXCEPT ![t] = IF written THEN [@ EXCEPT !.pc = "insert"]
                                               ELSE IdlePage(@)]
    /\ UNCHANGED <<fetch, gate, admin, now, handler, instances, problems, solutions,
                   transactions, sw, hist>>

Accepted(id, codeType, code, mark) ==
    [id |-> id, codeType |-> codeType, code |-> code, gate |-> mark]

\* CreateProblem.tsx 248-274: insert the problem; an error is thrown into the
\* catch, the bounty stays locked
InsertProblem(t) ==
    /\ pages[t].pc = "insert"
    /\ pages[t].op = "create"
    /\ \E ok \in Outcomes :
          LET p == CHOOSE id \in FreshProblemIds : id \notin DOMAIN problems
              page == pages[t]
              row == [creator_id |-> page.user, cost_function |-> page.code,
                      test_input_generator |-> page.generator,
                      problem_type |-> page.template]
                     @@ ProblemRow(page.amount, MaxNow + 1, 0, <<RangeMin, RangeMin>>,
                                   DefaultTimePenaltyPerMs)
          IN  /\ Spend(ok)
              /\ problems' = IF ok THEN (p :> row) @@ problems ELSE problems
              /\ hist' = IF ok
                         THEN [hist EXCEPT !.accepted =
                                 @ \cup {Accepted(p, "cost_function", page.code,
                                                  page.marks.cost)}
                                   \cup (IF page.template = "custom" /\ page.generator # {}
                                         THEN {Accepted(p, "test_input_generator",
                                                        page.generator,
                                                        page.marks.generator)}
                                         ELSE {})]
                         ELSE hist
              /\ pages' = [pages EXCEPT ![t] = IF ok THEN [@ EXCEPT !.pc = "log",
                                                                    !.problem = p]
                                               ELSE IdlePage(@)]
    /\ UNCHANGED <<fetch, gate, admin, now, handler, instances, solutions, profiles,
                   transactions, sw>>

\* ProblemDetail.tsx 602-616, 650-656: insert the solution; a second solution of
\* one submitter for one problem is refused (23505), an error is thrown into the
\* catch, the stake stays locked
InsertSolution(t) ==
    /\ pages[t].pc = "insert"
    /\ pages[t].op = "solve"
    /\ \E ok \in Outcomes :
          LET page == pages[t]
              id == <<page.problem, page.user>>
              inserted == ok /\ id \notin DOMAIN solutions
          IN  /\ Spend(ok)
              /\ solutions' = IF inserted
                              THEN (id :> ([algorithm |-> page.code]
                                           @@ SolutionRow(page.amount, 0))) @@ solutions
                              ELSE solutions
              /\ hist' = IF inserted
                         THEN [hist EXCEPT !.accepted =
                                 @ \cup {Accepted(id, "algorithm", page.code, "not_called")}]
                         ELSE hist
              /\ pages' = [pages EXCEPT ![t] = IF inserted THEN [@ EXCEPT !.pc = "log"]
                                               ELSE IdlePage(@)]
    /\ UNCHANGED <<fetch, gate, admin, now, handler, instances, problems, profiles,
                   transactions, sw>>

\* CreateProblem.tsx 276-284 / ProblemDetail.tsx 618-630: the bounty_lock or
\* stake_lock transaction; the error of the insert is not looked at
LogLock(t) ==
    /\ pages[t].pc = "log"
    /\ \E ok \in Outcomes :
          LET page == pages[t]
              tx == IF page.op = "create"
                    THEN Tx(page.user, "bounty_lock", Num(-page.amount), page.problem,
                            NoSolution)
                    ELSE Tx(page.user, "stake_lock", Num(-page.amount), page.problem,
                            <<page.problem, page.user>>)
          IN  /\ Spend(ok)
              /\ transactions' = IF ok THEN transactions (+) SetToBag({tx})
                                 ELSE transactions
              /\ pages' = [pages EXCEPT ![t].pc = "refresh"]
    /\ UNCHANGED <<fetch, gate, admin, now, handler, instances, problems, solutions, profiles,
                   sw, hist>>

\* fetch-external-data/index.ts 293-314: record_bounty_deposit inserts a
\* bounty_lock transaction for the amount it is given; no currency is written
record_bounty_deposit ==
    /\ hist.deposits < MaxDeposits
    /\ \E user_id \in PageUsers, problem_id \in {"p1"},
          amount_currency \in Bounties, ok \in Outcomes :
          /\ Spend(ok)
          /\ transactions' =
                IF ok
                THEN transactions (+) SetToBag({Tx(user_id, "bounty_lock",
                                                   Num(-amount_currency), problem_id,
                                                   NoSolution)})
                ELSE transactions
    /\ hist' = [hist EXCEPT !.deposits = @ + 1]
    /\ UNCHANGED <<fetch, gate, admin, pages, now, handler, instances, problems, solutions,
                   profiles, sw>>

PageStep(t) ==
    \/ refreshProfile(t)
    \/ handleSubmit(t)
    \/ ValidateCost(t)
    \/ ValidateGenerator(t)
    \/ handleSubmitSolution(t)
    \/ LockFunds(t)
    \/ InsertProblem(t)
    \/ InsertSolution(t)
    \/ LogLock(t)

NextBoard == record_bounty_deposit \/ \E t \in Tabs : PageStep(t)

\* two pages with the profile loaded, of two users or both of u2 (two tabs);
\* p1 and p2 are open without solutions; validate-code has its API key; at
\* most MaxFaults storage faults
InitBoard ==
    /\ now = 1
    /\ handler = "algorithmic"
    /\ faults = MaxFaults
    /\ hist = NoHist
    /\ instances = {}
    /\ sw = [s \in Sweeps |-> IdleSweep("none")]
    /\ gate \in {[NoGate EXCEPT !.version = v, !.key = TRUE] : v \in GateVersions}
    /\ admin = NoAdmin
    /\ fetch = NoFetch
    /\ Tables([p \in ProblemIds |-> 10], [p \in ProblemIds |-> MaxNow + 1], 0,
              <<RangeMin, RangeMin>>, [p \in ProblemIds |-> <<>>])
    /\ \E users \in {us \in [Tabs -> PageUsers] : us["b"] = "u2"} :
          pages = [t \in Tabs |->
                     [ClosedPage EXCEPT !.user = users[t], !.pc = "idle",
                                        !.currency = Num(DefaultCurrency
                                                         - Locked([p \in ProblemIds |-> 10],
                                                                  [p \in ProblemIds |-> <<>>],
                                                                  users[t]))]]

SpecBoard == InitBoard /\ [][NextBoard]_vars

\* fetch-external-data alone, from the first hour of the first day
InitFetch ==
    /\ now = 1
    /\ handler = "algorithmic"
    /\ faults = 0
    /\ hist = NoHist
    /\ instances = {}
    /\ sw = [s \in Sweeps |-> IdleSweep("none")]
    /\ gate = NoGate
    /\ admin = NoAdmin
    /\ pages = NoPages
    /\ fetch = NoFetch
    /\ Tables([p \in ProblemIds |-> 10], [p \in ProblemIds |-> MaxNow + 1], 0,
              <<RangeMin, RangeMin>>, [p \in ProblemIds |-> <<>>])

SpecFetch == InitFetch /\ [][NextFetch]_vars

\* problem_type values: the template of random inputs, a data-source template
\* and the custom generator
ProblemTypes == {"optimization", "stock_prediction", "custom"}

\* the tables with problems of the given types, both due, bounty 10; the
\* generator of a typed problem is its call of fetch_stock (the template's
\* with {{SYMBOL}} filled in, or the creator's own)
TypedTables(type, symbol, subs) ==
    /\ problems = [p \in ProblemIds |->
                     [problem_type |-> type[p],
                      test_input_generator |->
                         IF type[p] = "optimization" THEN "null"
                         ELSE [fetcher |-> "fetch_stock", symbol |-> symbol]]
                     @@ ProblemRow(10, 1, 0, <<RangeMin, RangeMax>>,
                                   DefaultTimePenaltyPerMs)]
    /\ solutions = [id \in {x \in SolutionIds :
                              \E i \in 1..Len(subs[x[1]]) : SubmitterOrder[i] = x[2]}
                    |-> SolutionRow(subs[id[1]][SubmitterIndex(id[2])].stake,
                                    subs[id[1]][SubmitterIndex(id[2])].answer)]
    /\ profiles = [u \in Profiles |->
                     [currency |-> Num(DefaultCurrency
                                       - Locked([p \in ProblemIds |-> 10], subs, u)),
                      reputation |-> Zero, total_profit |-> Zero]]
    /\ transactions =
          SetToBag({Tx(Creator, "bounty_lock", Num(-10), p, NoSolution) : p \in ProblemIds}
                   \cup {Tx(id[2], "stake_lock",
                            Num(-subs[id[1]][SubmitterIndex(id[2])].stake), id[1], id) :
                            id \in {x \in SolutionIds :
                                      \E i \in 1..Len(subs[x[1]]) :
                                         SubmitterOrder[i] = x[2]}})

\* what the problem's generate_test_input returns at clock t
generate_test_input(row, t) == fetchStock(row.test_input_generator.symbol, t)

\* the algorithmic handler on problems of one type, with the symbol "AAPL": one
\* sweep instance, no faults, p1 with one or two solutions and p2 with one or
\* none
InitTypes ==
    /\ now = 1
    /\ handler = "algorithmic"
    /\ faults = 0
    /\ hist = NoHist
    /\ instances = {"s1"}
    /\ sw = [s \in Sweeps |-> IdleSweep("none")]
    /\ gate = NoGate
    /\ admin = NoAdmin
    /\ pages = NoPages
    /\ fetch = NoFetch
    /\ \E type \in ProblemTypes,
          subs1 \in Submissions({30}, {0}, 2) \ {<<>>},
          subs2 \in Submissions({30}, {0}, 1) :
          TypedTables([p \in ProblemIds |-> type], <<65, 65, 80, 76>>,
                      [p \in ProblemIds |-> IF p = "p1" THEN subs1 ELSE subs2])

SpecTypes == InitTypes /\ [][Next]_vars

\* a sweep beside the ProblemDetail page of a submitter
NextSettleAndLock ==
    \/ Next
    \/ \E t \in Tabs :
          \/ refreshProfile(t)
          \/ handleSubmitSolution(t)
          \/ LockFunds(t)
          \/ InsertSolution(t)
          \/ LogLock(t)

\* one sweep instance and one page, no faults: p1 falls due with the solution of
\* u2 (stake 30), p2 with none, and u2 has a page open with the profile loaded
InitSettleAndLock ==
    /\ now = 1
    /\ handler \in Handlers
    /\ faults = 0
    /\ hist = NoHist
    /\ instances = {"s1"}
    /\ sw = [s \in Sweeps |-> IdleSweep("none")]
    /\ gate = NoGate
    /\ admin = NoAdmin
    /\ fetch = NoFetch
    /\ Tables([p \in ProblemIds |-> 10], [p \in ProblemIds |-> 1], 2,
              <<RangeMin, RangeMin>>,
              [p \in ProblemIds |-> IF p = "p1"
                                     THEN <<[stake |-> 30,
                                             answer |-> IF handler = "numeric" THEN 2
                                                        ELSE 0]>>
                                     ELSE <<>>])
    /\ pages = [NoPages EXCEPT !["a"] =
                  [ClosedPage EXCEPT !.user = "u2", !.pc = "idle",
                                     !.currency = Num(DefaultCurrency - 30)]]

SpecSettleAndLock == InitSettleAndLock /\ [][NextSettleAndLock]_vars

\* what Number(parsed.cost) can be: zero, positive, negative, not a number; and
\* Infinity, the cost of a solution whose run or cost function failed
WideCosts == {Zero, Num(1), Num(4), Num(-1), Num(-4), NaN, Infinity}

\* the settlement of a problem, from the update of the last solution's record on
NextSettle ==
    \E s \in Sweeps :
       \/ UpdateSolutionRecord(s)
       \/ UpdateSolutionPayout(s)
       \/ ReadProfile(s)
       \/ UpdateProfile(s)
       \/ InsertPayoutTx(s)
       \/ MarkEvaluated(s)

\* the algorithmic handler after the cost function of the last solution of p1
\* has answered: one or two solutions with stake 70, each evaluated in 20 ms with
\* any cost of WideCosts; no faults
InitSettle ==
    /\ now = MaxNow
    /\ handler = "algorithmic"
    /\ faults = 0
    /\ hist = NoHist
    /\ instances = {"s1"}
    /\ gate = NoGate
    /\ admin = NoAdmin
    /\ pages = NoPages
    /\ fetch = NoFetch
    /\ \E subs \in Submissions({70}, {0}, 2) \ {<<>>} :
          Tables([p \in ProblemIds |-> 10],
                 [p \in ProblemIds |-> IF p = "p1" THEN 1 ELSE MaxNow + 1], 0,
                 <<RangeMin, RangeMin>>,
                 [p \in ProblemIds |-> IF p = "p1" THEN subs ELSE <<>>])
    /\ \E cost \in [1..Len(SolutionsOf("p1")) -> WideCosts] :
          LET sols == SolutionsOf("p1")
              execResult == [output |-> "value", executionTimeMs |-> Num(10),
                             error |-> FALSE]
          IN  sw = [s \in Sweeps |->
                      IF s = "s1"
                      THEN [IdleSweep("none") EXCEPT
                              !.pc = "sol_update", !.batch = SelectDue, !.pi = 1,
                              !.testInput = RangeMin, !.k = Len(sols),
                              !.pool = Pool(Num(10), sols), !.execResult = execResult,
                              !.evaluated = [i \in 1..Len(sols) |->
                                               Evaluated(sols[i], "value", cost[i],
                                                         Num(20))]]
                      ELSE IdleSweep("none")]

SpecSettle == InitSettle /\ [][NextSettle]_vars

----------------------------------------------------------------------------
(* Reading the tables back *)

\* the sum of amount over the rows of a set of transactions, with multiplicity
RECURSIVE SumAmounts(_)
SumAmounts(ts) ==
    IF ts = {} THEN Zero
    ELSE LET t == CHOOSE x \in ts : TRUE
         IN  JAdd(JMul(t.amount, Num(CopiesIn(t, transactions))), SumAmounts(ts \ {t}))

\* the number of rows of a set of transactions, with multiplicity
RECURSIVE CountRows(_)
CountRows(ts) ==
    IF ts = {} THEN 0
    ELSE LET t == CHOOSE x \in ts : TRUE
         IN  CopiesIn(t, transactions) + CountRows(ts \ {t})

TxOf(p, type) == {t \in BagToSet(transactions) : t.problem_id = p /\ t.type = type}

SolutionIdsOf(p) == {id \in DOMAIN solutions : id[1] = p}

RECURSIVE SumStakes(_)
SumStakes(ids) ==
    IF ids = {} THEN Zero
    ELSE LET id == CHOOSE x \in ids : TRUE
         IN  JAdd(solutions[id].stake, SumStakes(ids \ {id}))

\* what the submitters of p hold beyond their balance after the stake lock
RECURSIVE SumGains(_)
SumGains(ids) ==
    IF ids = {} THEN Zero
    ELSE LET id == CHOOSE x \in ids : TRUE
         IN  JAdd(JSub(profiles[id[2]].currency,
                       JSub(Num(DefaultCurrency), solutions[id].stake)),
                  SumGains(ids \ {id}))

\* the sweeps that hold computed payouts, and the sum of those
Paying(s) == sw[s].pc \in {"pay_sol", "pay_read", "pay_update", "pay_tx", "flip"}
             /\ Len(sw[s].payouts) > 0

GrossSum(s) == JSum([i \in 1..Len(sw[s].payouts) |-> sw[s].payouts[i].payout])

BountyPlusStakes(p) == JAdd(problems[p].bounty, SumStakes(SolutionIdsOf(p)))

----------------------------------------------------------------------------
----------------------------------------------------------------------------
(* The payouts of the algorithmic handler, read from a sweep that holds them *)

Settling(s) == handler = "algorithmic" /\ Paying(s)

Perfect(s) == {i \in 1..Len(sw[s].evaluated) : sw[s].evaluated[i].cost = Zero}

\* the sum of the effective stakes of the perfect solutions
PerfectStake(s) ==
    JSum([i \in 1..Len(sw[s].evaluated) |->
            IF i \in Perfect(s) THEN sw[s].evaluated[i].effectiveStake ELSE Zero])

\* effectiveStake / cost, 0 for an infinite cost
ScoreOf(e) == IF e.cost = Infinity THEN Zero ELSE JDiv(e.effectiveStake, e.cost)

TotalScoreOf(s) == JSum([i \in 1..Len(sw[s].evaluated) |-> ScoreOf(sw[s].evaluated[i])])

PoolOf(s) == BountyPlusStakes(Problem(s).id)

EnergyOf(e) == JMul(e.executionTimeMs, Num(ENERGY_COST_PER_MS))

(* C5: with at least one solution of cost 0, every solution of non-zero cost *)
(* gets gross payout 0 and every perfect solution gets                       *)
(* pool * effectiveStake / (sum of the perfect solutions' effectiveStake),   *)
(* or pool / (number of perfect solutions) when that sum is 0; a single      *)
(* perfect solution gets the whole pool.                                     *)
C5_PerfectSplit ==
    \A s \in Sweeps :
       Settling(s) /\ Perfect(s) # {}
       => \A i \in 1..Len(sw[s].payouts) :
             LET e == sw[s].evaluated[i]
                 pay == sw[s].payouts[i].payout
             IN  /\ i \notin Perfect(s) => pay = Zero
                 /\ i \in Perfect(s) /\ JGt(PerfectStake(s), Zero)
                    => pay = JDiv(JMul(PoolOf(s), e.effectiveStake), PerfectStake(s))
                 /\ i \in Perfect(s) /\ ~JGt(PerfectStake(s), Zero)
                    => pay = JDiv(PoolOf(s), Num(Cardinality(Perfect(s))))
                 /\ Perfect(s) = {i} => pay = PoolOf(s)

\* two perfect solutions with different positive effective stakes and an
\* imperfect sibling that has a positive effective stake and a finite cost
C5_Witness ==
    \E s \in Sweeps :
       /\ Settling(s)
       /\ \E i, j, l \in 1..Len(sw[s].evaluated) :
             /\ {i, j} = Perfect(s) /\ i # j
             /\ JGt(sw[s].evaluated[i].effectiveStake, sw[s].evaluated[j].effectiveStake)
             /\ JGt(sw[s].evaluated[j].effectiveStake, Zero)
             /\ JGt(sw[s].evaluated[l].cost, Zero) /\ IsFin(sw[s].evaluated[l].cost)
             /\ JGt(sw[s].evaluated[l].effectiveStake, Zero)
             /\ JGt(sw[s].payouts[i].payout, sw[s].payouts[j].payout)

C7_AllInfiniteEqualSplit ==
    \A s \in Sweeps :
       /\ Settling(s)
       /\ \A i \in 1..Len(sw[s].evaluated) : sw[s].evaluated[i].cost = Infinity
       => \A i \in 1..Len(sw[s].payouts) :
             /\ sw[s].payouts[i].payout = JDiv(PoolOf(s), Num(Len(sw[s].payouts)))
             /\ IsFin(sw[s].payouts[i].payout)
             /\ JGt(sw[s].payouts[i].payout, Zero)

\* three solutions, all failed
C7_Witness ==
    \E s \in Sweeps :
       /\ Settling(s)
       /\ Len(sw[s].evaluated) = 3
       /\ \A i \in 1..3 : sw[s].evaluated[i].cost = Infinity
       /\ \A i \in 1..3 : sw[s].payouts[i].payout = JDiv(PoolOf(s), Num(3))

(* C8 as stated: a solution whose energy cost is >= its stake has            *)
(* effectiveStake 0 and gets gross payout 0 in the perfect-solution branch,  *)
(* its own cost being 0 or not.                                              *)
C8_Original ==
    \A s \in Sweeps : \A i \in 1..Len(sw[s].evaluated) :
       LET e == sw[s].evaluated[i]
       IN  JGe(EnergyOf(e), e.stake)
           => /\ e.effectiveStake = Zero
              /\ Settling(s) /\ Perfect(s) # {} => sw[s].payouts[i].payout = Zero

(* C8 amended: no effective stake is negative; a solution whose energy cost  *)
(* is >= its stake has effectiveStake 0, and in the perfect-solution branch  *)
(* it gets gross payout 0 unless its cost is 0 and no perfect solution has a *)
(* positive effective stake, in which case it gets pool / (number of perfect *)
(* solutions).                                                               *)
C8_TimePenaltyFloor ==
    \A s \in Sweeps : \A i \in 1..Len(sw[s].evaluated) :
       LET e == sw[s].evaluated[i]
       IN  /\ JGe(e.effectiveStake, Zero)
           /\ JGe(EnergyOf(e), e.stake)
              => /\ e.effectiveStake = Zero
                 /\ Settling(s) /\ Perfect(s) # {}
                    => sw[s].payouts[i].payout =
                          IF i \in Perfect(s) /\ ~JGt(PerfectStake(s), Zero)
                          THEN JDiv(PoolOf(s), Num(Cardinality(Perfect(s))))
                          ELSE Zero

\* a perfect solution whose stake is used up gets 0 beside a perfect solution
\* with a positive effective stake
C8_Witness ==
    \E s \in Sweeps :
       /\ Settling(s)
       /\ \E i, j \in Perfect(s) :
             /\ JGe(EnergyOf(sw[s].evaluated[i]), sw[s].evaluated[i].stake)
             /\ sw[s].evaluated[i].effectiveStake = Zero
             /\ JGt(sw[s].evaluated[j].effectiveStake, Zero)
             /\ sw[s].payouts[i].payout = Zero
             /\ sw[s].payouts[j].payout = PoolOf(s)


----------------------------------------------------------------------------
(* The ledger of one problem *)

\* the balance of u after its bounty and stake locks
LockedBalance(u) ==
    JAdd(Num(DefaultCurrency),
         SumAmounts({t \in BagToSet(transactions) :
                       t.user_id = u /\ t.type \in {"bounty_lock", "stake_lock"}}))

\* sweep s still has problem p before it: p is its current or a later problem
Pending(s, p) ==
    /\ sw[s].pc # "idle"
    /\ \E i \in sw[s].pi..Len(sw[s].batch) : sw[s].batch[i].id = p

TxCopies(p, txs) == [t \in {x \in BagToSet(txs) : x.problem_id = p} |-> CopiesIn(t, txs)]

CreditCopies(p, credited) ==
    [c \in {x \in BagToSet(credited) : x[1] = p} |-> CopiesIn(c, credited)]

(* C3: a sweep invoked when a problem is already evaluated does not select   *)
(* it, and while no sweep that selected it earlier is still at work on it,   *)
(* no step changes the problem's row (test_input included), its solution     *)
(* rows, its transactions or any profile on its behalf.                      *)
C3_RerunChangesNothing ==
    [][\A p \in ProblemIds :
          problems[p].status = "evaluated"
          => /\ \A s \in Sweeps :
                   sw[s].pc = "idle"
                   => \A i \in 1..Len(sw'[s].batch) : sw'[s].batch[i].id # p
             /\ (\A s \in Sweeps : ~Pending(s, p))
                => /\ problems'[p] = problems[p]
                   /\ \A id \in SolutionIdsOf(p) : solutions'[id] = solutions[id]
                   /\ TxCopies(p, transactions') = TxCopies(p, transactions)
                   /\ CreditCopies(p, hist'.credited) = CreditCopies(p, hist.credited)]_vars

\* the sweep has run again after problem p1 was evaluated and found nothing
C3_Witness ==
    /\ problems["p1"].status = "evaluated"
    /\ SolutionIdsOf("p1") # {}
    /\ sw["s1"].pc = "idle"
    /\ sw["s1"].response = "no_problems"

----------------------------------------------------------------------------
(* C2: when two sweeps overlap on a due problem only one settles it: no      *)
(* solution has more than one payout transaction, no problem more than one   *)
(* bounty_return transaction, and no profile is credited twice for one       *)
(* problem.                                                                  *)
C2_SettledOnce ==
    /\ \A id \in DOMAIN solutions :
          CountRows({t \in TxOf(id[1], "payout") : t.solution_id = id}) <= 1
    /\ \A p \in ProblemIds : CountRows(TxOf(p, "bounty_return")) <= 1
    /\ \A c \in BagToSet(hist.credited) : CopiesIn(c, hist.credited) <= 1

(* C4: a sweep in whose pass over a problem a profile read, a balance update *)
(* or a transaction insert failed does not mark that problem evaluated.      *)
C4_NoCommitAfterFailure == hist.commitAfterFailure = {}

(* C10: a failing solver or cost-function call never aborts the sweep, and   *)
(* the solution it failed for is entered with cost = Infinity.               *)
C10_FailureNeverAborts ==
    /\ hist.aborted = {}
    /\ \A s \in Sweeps : sw[s].response # "error"
    /\ \A s \in Sweeps : \A i \in 1..Len(sw[s].evaluated) :
          sw[s].evaluated[i].output # "value" => sw[s].evaluated[i].cost = Infinity

----------------------------------------------------------------------------
(* C11: a problem's test_input is written once.  A test input stored on the  *)
(* problem is never replaced by a different one, so a sweep that retries the *)
(* problem after a failed pass scores with the input that pass stored.       *)
C11_InputWrittenOnce ==
    [][\A p \in ProblemIds :
          problems[p].test_input # 0
          => problems'[p].test_input = problems[p].test_input]_vars

(* C15: the energy cost deducted from a stake is the total execution time    *)
(* times the time_penalty_per_ms configured on the problem: effectiveStake   *)
(* is max(0, stake - time * rate), so a rate of 0 leaves the stake whole and *)
(* two problems with different rates deduct differently for the same time.   *)
C15_ConfiguredRate ==
    \A s \in Sweeps : \A i \in 1..Len(sw[s].evaluated) :
       LET e == sw[s].evaluated[i]
           rate == problems[Problem(s).id].time_penalty_per_ms
       IN  e.effectiveStake = JMax(Zero, JSub(e.stake, JMul(e.executionTimeMs, rate)))

----------------------------------------------------------------------------
\* sweep s has credited payout i of the problem it is settling
Distributed(s, i) == Paying(s) /\ (i < sw[s].j \/ sw[s].pc = "flip")

----------------------------------------------------------------------------
(* The safety gate's answers *)

\* the code of the request matches at least one dangerous-severity pattern
HasDangerousPattern ==
    \E f \in gate.code : PatternSeverity(gate.version, gate.codeType, f) = "dangerous"

(* C12: for a code that matches a dangerous-severity static pattern validate *)
(* answers isValid = false with severity dangerous, and it answers without   *)
(* ever calling the semantic reviewer.                                       *)
C12_DangerousRejected ==
    HasDangerousPattern
    => /\ gate.pc # "review"
       /\ gate.reviewer = "none"
       /\ gate.pc = "response"
          => ~gate.result.isValid /\ gate.result.severity = "dangerous"

\* a code with import os, sent to a deployment that holds the reviewer's key, is
\* answered invalid and dangerous by the static pass alone
C12_Witness ==
    /\ gate.pc = "response"
    /\ gate.key
    /\ "import os" \in gate.code
    /\ gate.result.status = 200
    /\ ~gate.result.isValid
    /\ gate.result.severity = "dangerous"
    /\ gate.result.issues = gate.staticResult.issues
    /\ gate.reviewer = "none"

(* C14: when the semantic reviewer is unavailable (no API key, a non-OK      *)
(* response, a reply that cannot be parsed) validate answers with the static *)
(* result alone: its issues, its severity, and isValid = true unless that    *)
(* severity is dangerous.                                                    *)
C14_FallbackIsStatic ==
    gate.pc = "response" /\ gate.reviewer \in {"no_key", "not_ok", "not_json", "unparsable"}
    => LET staticResult == staticAnalysis(gate.version, gate.code, gate.codeType)
       IN  /\ gate.result.issues = staticResult.issues
           /\ gate.result.severity = staticResult.severity
           /\ gate.result.isValid = (staticResult.severity # "dangerous")

----------------------------------------------------------------------------
(* Invalidation, read back from the tables *)

\* what the invalidation of problem p returns to user u: the bounty to its
\* creator, the stake to the submitter of a solution
ReturnedTo(u, p) ==
    IF problems[p].status # "invalidated" THEN Zero
    ELSE JAdd(IF problems[p].creator_id = u THEN problems[p].bounty ELSE Zero,
              IF <<p, u>> \in DOMAIN solutions THEN solutions[<<p, u>>].stake ELSE Zero)

C18_TerminalStatus ==
    [][\A p \in ProblemIds :
          problems[p].status \in {"evaluated", "invalidated"}
          => /\ problems'[p].status = problems[p].status
             /\ TxCopies(p, transactions') = TxCopies(p, transactions)
             /\ CreditCopies(p, hist'.credited) = CreditCopies(p, hist.credited)]_vars

\* C13: every code a page has stored (cost function, custom generator, algorithm)
\* was either answered valid by the safety gate or skipped with a logged warning
\* while the gate gave no answer that says invalid
C13_GatedBeforeStored == \A a \in hist.accepted : a.gate \in {"valid", "warned"}

\* no handler of a page, of the Admin page or of a sweep is under way
Quiescent ==
    /\ \A t \in Tabs : pages[t].pc \in {"closed", "idle"}
    /\ admin.pc = "idle"
    /\ \A s \in Sweeps : sw[s].pc = "idle"

\* C17: when no operation is under way, what a profile's currency has moved from
\* the initial grant is the sum of the amounts of the user's transactions
C17_LedgerReconciles ==
    Quiescent =>
       \A u \in Profiles :
          JEq(JSub(profiles[u].currency, Num(DefaultCurrency)),
              SumAmounts({t \in BagToSet(transactions) : t.user_id = u}))

\* C20: no step leaves a negative currency, and a page's lock is written only
\* when the bounty or stake is at most the balance stored at that moment
C20_LocksWithinBalance ==
    [][/\ \A u \in Profiles : JGe(profiles'[u].currency, Zero)
       /\ \A t \in Tabs :
             pages[t].pc = "lock" /\ pages'[t].pc = "insert" =>
                JGe(profiles[pages[t].user].currency, Num(pages[t].amount))]_vars

\* C21: two answers of fetchStock for the same symbol string on the same
\* calendar date carry the same price, whatever the hour and whatever was
\* answered in between
C21_SamePriceSameDay ==
    \A a, b \in fetch.answers :
       a.symbol = b.symbol /\ a.day = b.day => a.price = b.price

C21_Witness ==
    \E a, b \in fetch.answers :
       /\ a.symbol = b.symbol /\ a.day = b.day /\ a.hours # b.hours
       /\ \E c \in fetch.answers : c.symbol = a.symbol /\ c.price # a.price

\* C22: the test input stored on a problem of a data-source or custom type is
\* what the problem's generator returns (the fetcher's answer), not a number
\* drawn from test_inputs_range
C22_InputFromGenerator ==
    \A p \in ProblemIds :
       problems[p].problem_type # "optimization" /\ problems[p].test_input # 0
       => Num(problems[p].test_input) = generate_test_input(problems[p], Clock)

\* C23: when a sweep ends, no problem of its batch for which a settlement step
\* failed has been marked evaluated (it stays open for the next sweep), and a
\* sweep that ends on a failure has still evaluated the problems that come
\* after the failed one in its batch
C23_FailureIsolated ==
    [][\A s \in Sweeps :
          sw[s].pc # "idle" /\ sw'[s].pc = "idle" =>
             /\ \A i \in 1..Len(sw[s].batch) :
                   sw[s].batch[i].id \notin hist'.commitAfterFailure
             /\ sw'[s].response = "error" =>
                   \A i \in (sw[s].pi + 1)..Len(sw[s].batch) :
                      problems'[sw[s].batch[i].id].status = "evaluated"]_vars

C25_TotalTimeWritten ==
    \A s \in Sweeps : \A i \in 1..Len(sw[s].evaluated) :
       LET e == sw[s].evaluated[i]
       IN  /\ e.effectiveStake =
                 JMax(Zero, JSub(e.stake, JMul(e.executionTimeMs, Num(ENERGY_COST_PER_MS))))
           /\ solutions[e.id].execution_time_ms \in {Null, e.executionTimeMs}

\* C26: a problem whose status flip failed after its payouts and which a later
\* sweep has retried and marked evaluated has one payout transaction per
\* solution, and each of its submitters was credited once
C26_RetrySettlesOnce ==
    \A p \in hist.uncommitted :
       problems[p].status = "evaluated" /\ (\A s \in Sweeps : ~Pending(s, p))
       => \A id \in SolutionIdsOf(p) :
             /\ CountRows({t \in TxOf(p, "payout") : t.solution_id = id}) = 1
             /\ CopiesIn(<<p, id[2]>>, hist.credited) = 1

\* C27: every write of a currency moves the stored value by the amount of the
\* operation: a page's lock takes the bounty or stake off the balance stored at
\* the write, a sweep's credit adds the payout to it, so no earlier write is
\* lost
C27_WritesFromStoredValue ==
    [][/\ \A t \in Tabs :
             pages[t].pc = "lock" /\ pages'[t].pc = "insert" =>
                profiles'[pages[t].user].currency =
                   JSub(profiles[pages[t].user].currency, Num(pages[t].amount))
       /\ \A s \in Sweeps :
             sw[s].pc = "pay_update" /\ sw'[s].pc = "pay_tx" /\ profiles' # profiles =>
                LET p == sw[s].payouts[sw[s].j]
                IN  profiles'[p.submitter_id].currency =
                       JAdd(profiles[p.submitter_id].currency, p.payout)]_vars

RECURSIVE SumCurrency(_)
SumCurrency(us) ==
    IF us = {} THEN Zero
    ELSE LET u == CHOOSE x \in us : TRUE
         IN  JAdd(profiles[u].currency, SumCurrency(us \ {u}))

\* the bounties and stakes held by a set of problems
RECURSIVE LockedIn(_)
LockedIn(ps) ==
    IF ps = {} THEN Zero
    ELSE LET p == CHOOSE x \in ps : TRUE
         IN  JAdd(JAdd(problems[p].bounty, SumStakes(SolutionIdsOf(p))),
                  LockedIn(ps \ {p}))

\* C28: when no operation is under way, the currency of all profiles plus the
\* bounties and stakes of the open problems is what the profiles were granted
C28_CurrencyConserved ==
    Quiescent =>
       JAdd(SumCurrency(Profiles),
            LockedIn({p \in DOMAIN problems : problems[p].status = "open"}))
       = Num(Cardinality(Profiles) * DefaultCurrency)

\* C29: the step at which the insert of a solution or of a problem is refused
\* gives the locked stake or bounty back, so that the currency is what it was
\* before the submit, and records no transaction
C29_FailedInsertRestores ==
    [][\A t \in Tabs :
          pages[t].pc = "insert" /\ pages'[t].pc = "idle" =>
             /\ profiles'[pages[t].user].currency =
                   JAdd(profiles[pages[t].user].currency, Num(pages[t].amount))
             /\ transactions' = transactions]_vars

\* C30: every gross payout a sweep has computed is at least 0 and at most the
\* pool, and the credit of a payout never lowers a submitter's currency
C30_PayoutWithinPool ==
    [][\A s \in Sweeps :
          /\ \A i \in 1..Len(sw'[s].payouts) :
                /\ JGe(sw'[s].payouts[i].payout, Zero)
                /\ JGe(sw'[s].pool, sw'[s].payouts[i].payout)
          /\ sw[s].pc = "pay_update" /\ sw'[s].pc = "pay_tx" =>
                \A u \in Profiles : JGe(profiles'[u].currency, profiles[u].currency)]_vars

====
